---------------------------- MODULE Spec2Model ----------------------------
(***************************************************************************)
(* A model of the tool resolution pipeline of the Alita agent:            *)
(*   tools_managing.py   tool repository, keyword extraction, matcher     *)
(*   tool_searching.py   candidate discovery and scoring                  *)
(*   manager.py          acquisition session and step orchestration      *)
(*                                                                         *)
(* A Python str is a sequence of one-character strings; a CJK character   *)
(* is written by its code point ("U5929" "U6C14" is the word for weather). *)
(***************************************************************************)
EXTENDS Integers, Sequences, FiniteSets, TLC

VARIABLES
  files,      \* tools/<id>.json : file name (an id) -> file content
  toolsDir,   \* whether the directory tools/ exists
  clock,      \* int(time.time()), in seconds
  saveLog,    \* history: the save_tool_as_json calls made, with the id returned
  matchCall,  \* the call of search_tool_by_keywords made, and what it ended with
  discCall,   \* the call of find_best_tools_with_exclusion made, and its result
  scoreCall,  \* the call of score_tool made, and its result
  pc,            \* where handle_task is: idle, step, deps, choose, approve, done
  task,          \* the request being handled and its analysis
  step_index,    \* i of the loop over the steps
  results,       \* the result of each step done
  step_outputs,  \* the console output captured for each step done
  session,       \* _create_and_execute_new_tool_v2: its locals, and what it did
  existing_tool, \* the tool _execute_existing_tool_v2 asks about
  stdout,        \* sys.stdout: the console, or the capture of a step
  tool_output,   \* tool_output.json
  hist           \* history: what each step did, the last session, the return value

repoVars  == <<files, toolsDir, clock, saveLog>>
matchVars == <<matchCall>>
discVars  == <<discCall, scoreCall>>
mainVars  == <<pc, task, step_index, results, step_outputs, session, existing_tool, stdout,
               tool_output, hist>>
vars      == <<repoVars, matchVars, discVars, mainVars>>

---------------------------------------------------------------------------
(* Strings                                                                 *)

LowerLetters == {"a", "b", "c", "d", "e", "f", "g", "h", "i", "j", "k", "l", "m",
                 "n", "o", "p", "q", "r", "s", "t", "u", "v", "w", "x", "y", "z"}
UpperLetters == {"A", "B", "C", "D", "E", "F", "G", "H", "I", "J", "K", "L", "M",
                 "N", "O", "P", "Q", "R", "S", "T", "U", "V", "W", "X", "Y", "Z"}
\* The CJK characters of the model, in the order of their code points
CJKInOrder ==
  <<"U4E0A", "U4E0B", "U4E1A", "U4E1C", "U4EA4", "U4EAC", "U4ECA", "U4EF7",
   "U4F01", "U4F1F", "U4F26", "U4FE1", "U503C", "U516C", "U524D", "U52A1",
   "U5317", "U53D6", "U53E3", "U53F8", "U573A", "U5929", "U5B9E", "U5E02",
   "U5EA6", "U5F53", "U5FAE", "U606F", "U627E", "U62A5", "U62C9", "U636E",
   "U63A5", "U641C", "U6566", "U6570", "U65AF", "U65B0", "U65F6", "U6613",
   "U6700", "U679C", "U67E5", "U683C", "U6C14", "U6CB9", "U6D77", "U6E29",
   "U7279", "U770B", "U7968", "U7BA1", "U7D22", "U7EA6", "U7EBD", "U80A1",
   "U82F1", "U82F9", "U83B7", "U878D", "U89C6", "U8BAF", "U8BE2", "U8D22",
   "U8D44", "U8F6F", "U8F7D", "U8FBE", "U91D1", "U95FB", "U9884", "U9891">>


CJKChars == {CJKInOrder[i] : i \in 1..Len(CJKInOrder)}

Digits == {"0", "1", "2", "3", "4", "5", "6", "7", "8", "9"}

\* The printable ASCII characters, from code point 32 to 126; the double
\* quote, the backslash and the backtick are written QUOTE, BACKSLASH and
\* BACKTICK.
Ascii ==
  <<" ", "!", "QUOTE", "#", "$", "%", "&", "'", "(", ")", "*", "+", ",", "-",
    ".", "/", "0", "1", "2", "3", "4", "5", "6", "7", "8", "9", ":", ";",
    "<", "=", ">", "?", "@", "A", "B", "C", "D", "E", "F", "G", "H", "I",
    "J", "K", "L", "M", "N", "O", "P", "Q", "R", "S", "T", "U", "V", "W",
    "X", "Y", "Z", "[", "BACKSLASH", "]", "^", "_", "BACKTICK", "a", "b", "c", "d", "e",
    "f", "g", "h", "i", "j", "k", "l", "m", "n", "o", "p", "q", "r", "s",
    "t", "u", "v", "w", "x", "y", "z", "{", "|", "}", "~">>

\* A number that orders the characters as their code points do
CharOrder(c) ==
  IF c \in CJKChars THEN 1000 + (CHOOSE i \in 1..Len(CJKInOrder) : CJKInOrder[i] = c)
  ELSE IF c = "\n" THEN 10
  ELSE IF c = "\t" THEN 9
  ELSE 31 + (CHOOSE i \in 1..Len(Ascii) : Ascii[i] = c)

\* a < b for two strings: the order of sorted()
RECURSIVE StrLess(_, _)
StrLess(a, b) ==
  IF b = <<>> THEN FALSE
  ELSE IF a = <<>> THEN TRUE
  ELSE IF Head(a) = Head(b) THEN StrLess(Tail(a), Tail(b))
  ELSE CharOrder(Head(a)) < CharOrder(Head(b))

\* \s of the regular expressions: blank, newline and tab
SpaceChars   == {" ", "\n", "\t"}

UpperCase == <<"A", "B", "C", "D", "E", "F", "G", "H", "I", "J", "K", "L", "M",
               "N", "O", "P", "Q", "R", "S", "T", "U", "V", "W", "X", "Y", "Z">>
LowerCase == <<"a", "b", "c", "d", "e", "f", "g", "h", "i", "j", "k", "l", "m",
               "n", "o", "p", "q", "r", "s", "t", "u", "v", "w", "x", "y", "z">>

\* str.lower() on one character
LowerChar(c) ==
  IF c \in UpperLetters THEN LowerCase[CHOOSE i \in 1..26 : UpperCase[i] = c] ELSE c

\* str.lower()
Lower(s) == [i \in 1..Len(s) |-> LowerChar(s[i])]

\* a in b, for two strings
IsSubstr(a, b) ==
  \E i \in 0..(Len(b) - Len(a)) : \A j \in 1..Len(a) : b[i + j] = a[j]

\* s.startswith / lstrip / rstrip helpers
RECURSIVE LStrip(_, _)
LStrip(s, cs) ==
  IF s # <<>> /\ Head(s) \in cs THEN LStrip(Tail(s), cs) ELSE s

RECURSIVE RStrip(_, _)
RStrip(s, cs) ==
  IF s # <<>> /\ s[Len(s)] \in cs THEN RStrip(SubSeq(s, 1, Len(s) - 1), cs) ELSE s

\* s.strip(cs)
Strip(s, cs) == RStrip(LStrip(s, cs), cs)

\* The maximal runs of characters of cs in s, in order (re.findall of [cs]+).
RECURSIVE RunsFrom(_, _, _)
RunsFrom(s, cs, cur) ==
  IF s = <<>> THEN (IF cur = <<>> THEN <<>> ELSE <<cur>>)
  ELSE IF Head(s) \in cs THEN RunsFrom(Tail(s), cs, Append(cur, Head(s)))
  ELSE (IF cur = <<>> THEN <<>> ELSE <<cur>>) \o RunsFrom(Tail(s), cs, <<>>)

Runs(s, cs) == RunsFrom(s, cs, <<>>)

\* str.split(): the maximal runs of non-space characters
RECURSIVE SplitFrom(_, _)
SplitFrom(s, cur) ==
  IF s = <<>> THEN (IF cur = <<>> THEN <<>> ELSE <<cur>>)
  ELSE IF Head(s) \in SpaceChars
       THEN (IF cur = <<>> THEN <<>> ELSE <<cur>>) \o SplitFrom(Tail(s), <<>>)
  ELSE SplitFrom(Tail(s), Append(cur, Head(s)))

Split(s) == SplitFrom(s, <<>>)

\* ' '.join(ws)
RECURSIVE JoinSp(_)
JoinSp(ws) ==
  IF ws = <<>> THEN <<>>
  ELSE IF Len(ws) = 1 THEN ws[1]
  ELSE ws[1] \o <<" ">> \o JoinSp(Tail(ws))

Range(f) == {f[i] : i \in DOMAIN f}

Min(a, b) == IF a <= b THEN a ELSE b

\* s[:n]
Prefix(s, n) == SubSeq(s, 1, Min(n, Len(s)))

---------------------------------------------------------------------------
(* tools_managing.py: sanitize_tool_name, generate_tool_id                 *)

\* [^\w\s-] is removed: word characters, white space and the hyphen stay.
NameKept(c) ==
  c \in LowerLetters \cup UpperLetters \cup Digits \cup CJKChars \cup {"_", "-"} \cup SpaceChars

\* re.sub(r'[-\s]+', '_', s)
RECURSIVE CollapseSeparators(_)
CollapseSeparators(s) ==
  IF s = <<>> THEN <<>>
  ELSE IF Head(s) \in {"-"} \cup SpaceChars
       THEN <<"_">> \o CollapseSeparators(LStrip(Tail(s), {"-"} \cup SpaceChars))
  ELSE <<Head(s)>> \o CollapseSeparators(Tail(s))

sanitize_tool_name(tool_name) ==
  Lower(Strip(CollapseSeparators(SelectSeq(tool_name, NameKept)), {"-", "_"}))

\* f"{sanitized_name}_{timestamp}"; the decimal numeral of the timestamp is
\* written as one character.
generate_tool_id(tool_name, now) ==
  sanitize_tool_name(tool_name) \o <<"_">> \o <<ToString(now)>>


---------------------------------------------------------------------------
(* tools_managing.py: the repository (save, list, load)                    *)

\* json.dump of a dict of strings, lists of strings and a number, and the
\* json.load of what was written: the document read back holds the same
\* keys and values; a file that is not valid JSON makes json.load raise.
JsonDump(data) == [readable |-> TRUE, data |-> data]

CorruptFile == [readable |-> FALSE]

JsonLoad(content) ==
  IF content.readable THEN [ok |-> TRUE, data |-> content.data] ELSE [ok |-> FALSE]

\* dict.get(key, default)
Get(d, key, default) == IF key \in DOMAIN d THEN d[key] ELSE default

NoValue == <<"None">>

\* The record save_tool_as_json builds (tools_managing.py:348-356).
ToolData(tool_id, tool_name, tool_description, keywords, install_dependencies, python_code, created_at) ==
  [id                   |-> tool_id,
   tool_description     |-> tool_description,
   keywords             |-> keywords,
   install_dependencies |-> install_dependencies,
   python_code          |-> python_code,
   created_at           |-> created_at,
   original_name        |-> tool_name]

\* WriteFile with the file opened in mode 'x': an existing file is kept.
WriteFileIfAbsent(fs, name, content) ==
  [f \in DOMAIN fs \cup {name} |-> IF f \in DOMAIN fs THEN fs[f] ELSE content]

\* open(filename, 'w') and json.dump: the file tools/<id>.json is created,
\* or truncated and rewritten when it exists.
WriteFile(fs, name, content) ==
  [f \in DOMAIN fs \cup {name} |-> IF f = name THEN content ELSE fs[f]]

\* save_tool_as_json that builds the record and the id and writes no file
save_tool_unwritten(fs, tool_name, tool_description, keywords, install_dependencies, python_code, now, later) ==
  [files |-> fs, id |-> generate_tool_id(tool_name, now)]

\* save_tool_as_json: `now` is the clock reading of generate_tool_id and
\* `later` the one of created_at. Gives the files written and the id.
save_tool_as_json(fs, tool_name, tool_description, keywords, install_dependencies, python_code, now, later) ==
  LET tool_id == generate_tool_id(tool_name, now)
      data    == ToolData(tool_id, tool_name, tool_description, keywords,
                          install_dependencies, python_code, later)
  IN  [files |-> WriteFile(fs, tool_id, JsonDump(data)), id |-> tool_id]

\* list_available_tools_v2: one entry per readable file; os.listdir gives
\* the files in no particular order, so the list is modelled by its set of
\* entries (two entries differ at least by 'filename').
list_available_tools_v2(dir, fs) ==
  IF ~dir THEN {}
  ELSE {[id          |-> Get(fs[f].data, "id", NoValue),
         name        |-> Get(fs[f].data, "original_name", Get(fs[f].data, "id", NoValue)),
         description |-> Get(fs[f].data, "tool_description", NoValue),
         keywords    |-> Get(fs[f].data, "keywords", NoValue),
         filename    |-> f] : f \in {g \in DOMAIN fs : JsonLoad(fs[g]).ok}}

\* load_tool_by_id: the record of tools/<id>.json, or None when the file is
\* absent or unreadable.
load_tool_by_id(fs, tool_id) ==
  IF tool_id \in DOMAIN fs /\ JsonLoad(fs[tool_id]).ok
  THEN [found |-> TRUE, data |-> JsonLoad(fs[tool_id]).data]
  ELSE [found |-> FALSE]

---------------------------------------------------------------------------
(* tools_managing.py: extract_keywords                                     *)

Letters == LowerLetters \cup UpperLetters

\* \w of the regular expressions, over the characters of the model
WordChars == Letters \cup Digits \cup CJKChars \cup {"_"}

\* tools_managing.py:44-68
stop_words ==
  {<<"t", "h", "e">>, <<"i", "s">>, <<"a", "t">>,
   <<"w", "h", "i", "c", "h">>, <<"o", "n">>, <<"a", "n", "d">>, <<"a">>,
   <<"a", "n">>, <<"a", "s">>, <<"a", "r", "e">>, <<"b", "e", "e", "n">>,
   <<"b", "y">>, <<"f", "o", "r">>, <<"f", "r", "o", "m">>,
   <<"h", "a", "s">>, <<"h", "a", "d">>, <<"h", "a", "v", "e">>,
   <<"i", "n">>, <<"o", "f">>, <<"o", "r">>, <<"t", "h", "a", "t">>,
   <<"t", "o">>, <<"w", "a", "s">>, <<"w", "i", "l", "l">>,
   <<"w", "i", "t", "h">>, <<"g", "e", "t">>, <<"f", "e", "t", "c", "h">>,
   <<"r", "e", "t", "r", "i", "e", "v", "e">>, <<"d", "a", "t", "a">>,
   <<"i", "n", "f", "o", "r", "m", "a", "t", "i", "o", "n">>,
   <<"u", "s", "i", "n", "g">>, <<"u", "s", "e">>, <<"v", "i", "a">>,
   <<"t", "h", "r", "o", "u", "g", "h">>, <<"t", "o", "o", "l">>,
   <<"a", "n", "y">>, <<"a", "l", "l">>, <<"c", "a", "n">>,
   <<"c", "o", "u", "l", "d">>, <<"w", "o", "u", "l", "d">>,
   <<"s", "h", "o", "u", "l", "d">>, <<"m", "a", "y">>,
   <<"m", "i", "g", "h", "t">>, <<"m", "u", "s", "t">>,
   <<"s", "h", "a", "l", "l">>, <<"d", "o">>, <<"d", "o", "e", "s">>,
   <<"d", "i", "d">>, <<"d", "o", "n", "e">>, <<"b", "e">>,
   <<"b", "e", "i", "n", "g">>, <<"a", "m">>, <<"w", "e", "r", "e">>,
   <<"t", "h", "i", "s">>, <<"t", "h", "e", "s", "e">>,
   <<"t", "h", "o", "s", "e">>, <<"i", "t">>, <<"i", "t", "s">>,
   <<"t", "h", "e", "i", "r">>, <<"t", "h", "e", "m">>, <<"w", "e">>,
   <<"u", "s">>, <<"o", "u", "r">>, <<"y", "o", "u">>,
   <<"y", "o", "u", "r">>, <<"h", "e">>, <<"h", "i", "m">>,
   <<"h", "i", "s">>, <<"s", "h", "e">>, <<"h", "e", "r">>,
   <<"t", "h", "e", "y">>, <<"m", "e">>, <<"m", "y">>, <<"i">>,
   <<"n", "o", "t">>, <<"n", "o">>, <<"n", "o", "r">>, <<"b", "u", "t">>,
   <<"o", "n", "l", "y">>, <<"j", "u", "s", "t">>, <<"v", "e", "r", "y">>,
   <<"t", "o", "o">>, <<"a", "l", "s", "o">>, <<"m", "o", "r", "e">>,
   <<"m", "o", "s", "t">>, <<"m", "u", "c", "h">>, <<"m", "a", "n", "y">>,
   <<"s", "o", "m", "e">>, <<"f", "e", "w">>, <<"e", "a", "c", "h">>,
   <<"e", "v", "e", "r", "y">>, <<"e", "i", "t", "h", "e", "r">>,
   <<"n", "e", "i", "t", "h", "e", "r">>, <<"o", "n", "e">>,
   <<"t", "w", "o">>, <<"f", "i", "r", "s", "t">>,
   <<"s", "e", "c", "o", "n", "d">>, <<"t", "h", "i", "r", "d">>,
   <<"l", "a", "s", "t">>, <<"n", "e", "x", "t">>, <<"n", "e", "w">>,
   <<"o", "l", "d">>, <<"g", "o", "o", "d">>, <<"b", "a", "d">>,
   <<"g", "r", "e", "a", "t">>, <<"s", "m", "a", "l", "l">>,
   <<"l", "a", "r", "g", "e">>, <<"b", "i", "g">>, <<"h", "i", "g", "h">>,
   <<"l", "o", "w">>, <<"s", "a", "m", "e">>,
   <<"d", "i", "f", "f", "e", "r", "e", "n", "t">>, <<"s", "u", "c", "h">>,
   <<"s", "o">>, <<"t", "h", "a", "n">>, <<"t", "h", "e", "n">>,
   <<"i", "f">>, <<"e", "l", "s", "e">>, <<"w", "h", "e", "n">>,
   <<"w", "h", "e", "r", "e">>, <<"w", "h", "a", "t">>, <<"w", "h", "o">>,
   <<"w", "h", "y">>, <<"h", "o", "w">>,
   <<"b", "e", "c", "a", "u", "s", "e">>, <<"s", "i", "n", "c", "e">>,
   <<"w", "h", "i", "l", "e">>, <<"a", "f", "t", "e", "r">>,
   <<"b", "e", "f", "o", "r", "e">>, <<"d", "u", "r", "i", "n", "g">>,
   <<"a", "b", "o", "u", "t">>, <<"a", "b", "o", "v", "e">>,
   <<"b", "e", "l", "o", "w">>, <<"b", "e", "t", "w", "e", "e", "n">>,
   <<"i", "n", "t", "o">>, <<"o", "u", "t">>, <<"u", "p">>,
   <<"d", "o", "w", "n">>, <<"m", "a", "i", "n">>, <<"d", "e", "f">>,
   <<"s", "e", "l", "f">>, <<"n", "o", "n", "e">>, <<"t", "r", "u", "e">>,
   <<"f", "a", "l", "s", "e">>, <<"t", "r", "y">>,
   <<"e", "x", "c", "e", "p", "t">>, <<"i", "m", "p", "o", "r", "t">>,
   <<"r", "e", "t", "u", "r", "n">>, <<"p", "a", "s", "s">>,
   <<"b", "r", "e", "a", "k">>, <<"c", "o", "n", "t", "i", "n", "u", "e">>,
   <<"c", "l", "a", "s", "s">>, <<"f", "u", "n", "c", "t", "i", "o", "n">>,
   <<"s", "p", "e", "c", "i", "f", "i", "e", "d">>,
   <<"s", "p", "e", "c", "i", "f", "i", "c">>,
   <<"g", "e", "n", "e", "r", "a", "l">>,
   <<"g", "e", "n", "e", "r", "i", "c">>, <<"c", "o", "m", "m", "o", "n">>,
   <<"s", "i", "m", "p", "l", "e">>,
   <<"a", "v", "a", "i", "l", "a", "b", "l", "e">>,
   <<"c", "u", "r", "r", "e", "n", "t">>, <<"l", "a", "t", "e", "s", "t">>,
   <<"r", "e", "c", "e", "n", "t">>, <<"u", "p", "d", "a", "t", "e">>,
   <<"c", "h", "e", "c", "k">>}

\* tools_managing.py:71-80
programming_stop_words ==
  {<<"d", "e", "f">>, <<"i", "m", "p", "o", "r", "t">>,
   <<"f", "r", "o", "m">>, <<"c", "l", "a", "s", "s">>,
   <<"r", "e", "t", "u", "r", "n">>, <<"i", "f">>, <<"e", "l", "s", "e">>,
   <<"t", "r", "y">>, <<"e", "x", "c", "e", "p", "t">>,
   <<"r", "a", "i", "s", "e">>, <<"f", "i", "n", "a", "l", "l", "y">>,
   <<"w", "i", "t", "h">>, <<"a", "s">>, <<"p", "a", "s", "s">>,
   <<"b", "r", "e", "a", "k">>, <<"c", "o", "n", "t", "i", "n", "u", "e">>,
   <<"w", "h", "i", "l", "e">>, <<"f", "o", "r">>, <<"i", "n">>,
   <<"a", "n", "d">>, <<"o", "r">>, <<"n", "o", "t">>, <<"i", "s">>,
   <<"n", "o", "n", "e">>, <<"t", "r", "u", "e">>,
   <<"f", "a", "l", "s", "e">>, <<"s", "e", "l", "f">>,
   <<"_", "_", "i", "n", "i", "t", "_", "_">>,
   <<"_", "_", "m", "a", "i", "n", "_", "_">>, <<"m", "a", "i", "n">>,
   <<"p", "r", "i", "n", "t">>, <<"i", "n", "p", "u", "t">>,
   <<"o", "u", "t", "p", "u", "t">>, <<"f", "i", "l", "e">>,
   <<"o", "p", "e", "n">>, <<"c", "l", "o", "s", "e">>,
   <<"r", "e", "a", "d">>, <<"w", "r", "i", "t", "e">>, <<"s", "t", "r">>,
   <<"i", "n", "t">>, <<"f", "l", "o", "a", "t">>, <<"l", "i", "s", "t">>,
   <<"d", "i", "c", "t">>, <<"s", "e", "t">>, <<"t", "u", "p", "l", "e">>,
   <<"o", "b", "j", "e", "c", "t">>, <<"a", "r", "g", "s">>,
   <<"k", "w", "a", "r", "g", "s">>, <<"p", "a", "r", "a", "m">>,
   <<"p", "a", "r", "a", "m", "e", "t", "e", "r">>,
   <<"r", "e", "s", "u", "l", "t">>, <<"v", "a", "l", "u", "e">>,
   <<"i", "t", "e", "m">>, <<"e", "r", "r", "o", "r">>,
   <<"e", "x", "c", "e", "p", "t", "i", "o", "n">>,
   <<"w", "a", "r", "n", "i", "n", "g">>, <<"d", "e", "b", "u", "g">>,
   <<"i", "n", "f", "o">>, <<"l", "o", "g">>}

\* tools_managing.py:154-155
weather_terms ==
  {<<"w", "e", "a", "t", "h", "e", "r">>,
   <<"t", "e", "m", "p", "e", "r", "a", "t", "u", "r", "e">>,
   <<"f", "o", "r", "e", "c", "a", "s", "t">>,
   <<"c", "l", "i", "m", "a", "t", "e">>, <<"r", "a", "i", "n">>,
   <<"s", "n", "o", "w">>, <<"s", "u", "n", "n", "y">>,
   <<"c", "l", "o", "u", "d", "y">>, <<"w", "i", "n", "d">>,
   <<"h", "u", "m", "i", "d", "i", "t", "y">>,
   <<"p", "r", "e", "s", "s", "u", "r", "e">>}

\* tools_managing.py:158-160
finance_terms ==
  {<<"s", "t", "o", "c", "k">>, <<"p", "r", "i", "c", "e">>,
   <<"m", "a", "r", "k", "e", "t">>, <<"t", "r", "a", "d", "i", "n", "g">>,
   <<"f", "i", "n", "a", "n", "c", "e">>, <<"t", "i", "c", "k", "e", "r">>,
   <<"q", "u", "o", "t", "e">>, <<"s", "h", "a", "r", "e">>,
   <<"i", "n", "v", "e", "s", "t", "m", "e", "n", "t">>,
   <<"p", "o", "r", "t", "f", "o", "l", "i", "o">>,
   <<"d", "i", "v", "i", "d", "e", "n", "d">>,
   <<"e", "a", "r", "n", "i", "n", "g", "s">>,
   <<"r", "e", "v", "e", "n", "u", "e">>, <<"p", "r", "o", "f", "i", "t">>,
   <<"l", "o", "s", "s">>, <<"n", "a", "s", "d", "a", "q">>,
   <<"n", "y", "s", "e">>}

\* tools_managing.py:163-164
api_terms ==
  {<<"a", "p", "i">>, <<"e", "n", "d", "p", "o", "i", "n", "t">>,
   <<"r", "e", "q", "u", "e", "s", "t">>,
   <<"r", "e", "s", "p", "o", "n", "s", "e">>,
   <<"a", "u", "t", "h", "e", "n", "t", "i", "c", "a", "t", "i", "o", "n">>,
   <<"t", "o", "k", "e", "n">>, <<"k", "e", "y">>,
   <<"c", "l", "i", "e", "n", "t">>, <<"s", "e", "r", "v", "e", "r">>,
   <<"r", "e", "s", "t">>, <<"g", "r", "a", "p", "h", "q", "l">>,
   <<"s", "d", "k">>}

\* tools_managing.py:174-175
common_locations ==
  {<<"b", "e", "i", "j", "i", "n", "g">>,
   <<"s", "h", "a", "n", "g", "h", "a", "i">>,
   <<"l", "o", "n", "d", "o", "n">>, <<"n", "e", "w", "y", "o", "r", "k">>,
   <<"t", "o", "k", "y", "o">>, <<"p", "a", "r", "i", "s">>,
   <<"s", "y", "d", "n", "e", "y">>, <<"t", "o", "r", "o", "n", "t", "o">>,
   <<"s", "i", "n", "g", "a", "p", "o", "r", "e">>,
   <<"h", "o", "n", "g", "k", "o", "n", "g">>}

\* tools_managing.py:182-183
tech_companies ==
  {<<"a", "p", "p", "l", "e">>, <<"g", "o", "o", "g", "l", "e">>,
   <<"m", "i", "c", "r", "o", "s", "o", "f", "t">>,
   <<"a", "m", "a", "z", "o", "n">>, <<"t", "e", "s", "l", "a">>,
   <<"n", "v", "i", "d", "i", "a">>, <<"m", "e", "t", "a">>,
   <<"n", "e", "t", "f", "l", "i", "x">>, <<"i", "n", "t", "e", "l">>,
   <<"a", "m", "d">>}

all_stop_words == stop_words \cup programming_stop_words

\* tools_managing.py:111-128: a CJK run holding one of `any` adds `add`.
chinese_patterns ==
  {[any |-> {<<"U5929", "U6C14">>},
    add |-> {<<"U5929", "U6C14">>, <<"w", "e", "a", "t", "h", "e", "r">>, <<"t", "e", "m", "p", "e", "r", "a", "t", "u", "r", "e">>, <<"f", "o", "r", "e", "c", "a", "s", "t">>}],
   [any |-> {<<"U80A1", "U7968">>},
    add |-> {<<"U80A1", "U7968">>, <<"s", "t", "o", "c", "k">>, <<"p", "r", "i", "c", "e">>, <<"m", "a", "r", "k", "e", "t">>}],
   [any |-> {<<"U4EF7", "U683C">>},
    add |-> {<<"U4EF7", "U683C">>, <<"p", "r", "i", "c", "e">>, <<"c", "o", "s", "t">>, <<"v", "a", "l", "u", "e">>}],
   [any |-> {<<"U67E5", "U8BE2">>, <<"U67E5", "U770B">>},
    add |-> {<<"U67E5", "U8BE2">>, <<"U67E5", "U770B">>, <<"c", "h", "e", "c", "k">>, <<"q", "u", "e", "r", "y">>, <<"s", "e", "a", "r", "c", "h">>}],
   [any |-> {<<"U83B7", "U53D6">>},
    add |-> {<<"U83B7", "U53D6">>, <<"g", "e", "t">>, <<"f", "e", "t", "c", "h">>, <<"r", "e", "t", "r", "i", "e", "v", "e">>}],
   [any |-> {<<"U5317", "U4EAC">>},
    add |-> {<<"U5317", "U4EAC">>, <<"b", "e", "i", "j", "i", "n", "g">>}],
   [any |-> {<<"U4E0A", "U6D77">>},
    add |-> {<<"U4E0A", "U6D77">>, <<"s", "h", "a", "n", "g", "h", "a", "i">>}],
   [any |-> {<<"U82F9", "U679C">>},
    add |-> {<<"U82F9", "U679C">>, <<"a", "p", "p", "l", "e">>, <<"a", "a", "p", "l">>}],
   [any |-> {<<"U516C", "U53F8">>},
    add |-> {<<"U516C", "U53F8">>, <<"c", "o", "m", "p", "a", "n", "y">>, <<"c", "o", "r", "p", "o", "r", "a", "t", "i", "o", "n">>}]}

\* tools_managing.py:193
low_quality_keywords ==
  {<<"a", "n", "y">>,
   <<"a", "l", "l">>,
   <<"m", "a", "i", "n">>,
   <<"s", "e", "l", "f">>,
   <<"n", "o", "n", "e">>,
   <<"r", "e", "t", "r", "i", "e", "v", "e", "s">>,
   <<"f", "e", "t", "c", "h", "e", "s">>}

\* tools_managing.py:386-394
keyword_expansions ==
  {[key |-> <<"w", "e", "a", "t", "h", "e", "r">>,
    add |-> {<<"t", "e", "m", "p", "e", "r", "a", "t", "u", "r", "e">>, <<"f", "o", "r", "e", "c", "a", "s", "t">>, <<"c", "l", "i", "m", "a", "t", "e">>}],
   [key |-> <<"s", "t", "o", "c", "k">>,
    add |-> {<<"p", "r", "i", "c", "e">>, <<"m", "a", "r", "k", "e", "t">>, <<"f", "i", "n", "a", "n", "c", "e">>, <<"t", "r", "a", "d", "i", "n", "g">>}],
   [key |-> <<"d", "o", "w", "n", "l", "o", "a", "d">>,
    add |-> {<<"f", "e", "t", "c", "h">>, <<"g", "e", "t">>, <<"r", "e", "t", "r", "i", "e", "v", "e">>}],
   [key |-> <<"b", "e", "i", "j", "i", "n", "g">>,
    add |-> {<<"U5317", "U4EAC">>, <<"w", "e", "a", "t", "h", "e", "r">>}],
   [key |-> <<"n", "v", "i", "d", "i", "a">>,
    add |-> {<<"n", "v", "d", "a">>, <<"s", "t", "o", "c", "k">>, <<"p", "r", "i", "c", "e">>}],
   [key |-> <<"a", "p", "p", "l", "e">>,
    add |-> {<<"a", "a", "p", "l">>, <<"s", "t", "o", "c", "k">>, <<"p", "r", "i", "c", "e">>}],
   [key |-> <<"f", "i", "n", "a", "n", "c", "i", "a", "l">>,
    add |-> {<<"f", "i", "n", "a", "n", "c", "e">>, <<"e", "a", "r", "n", "i", "n", "g", "s">>, <<"r", "e", "v", "e", "n", "u", "e">>}]}

\* text.replace('_', ' ')
UnderscoresToSpaces(s) == [i \in 1..Len(s) |-> IF s[i] = "_" THEN " " ELSE s[i]]

\* re.sub(r'([a-z])([A-Z])', r'\1 \2', text)
RECURSIVE SplitCamelCase(_)
SplitCamelCase(s) ==
  IF Len(s) < 2 THEN s
  ELSE IF s[1] \in LowerLetters /\ s[2] \in UpperLetters
       THEN <<s[1], " ">> \o SplitCamelCase(Tail(s))
  ELSE <<s[1]>> \o SplitCamelCase(Tail(s))

\* chinese_pattern.findall(text): the maximal CJK runs
ChineseWords(text) == Range(Runs(text, CJKChars))

\* english_pattern.findall(text.lower()), for \b[a-zA-Z]+\b: a maximal run
\* of letters matches when no word character (a CJK character is one)
\* touches it, that is when it is a whole run of word characters.
EnglishWords(text) ==
  {w \in Range(Runs(Lower(text), WordChars)) : \A i \in 1..Len(w) : w[i] \in Letters}

\* tools_managing.py:105-128
ChineseKeywords(text) ==
  ChineseWords(text) \cup
  UNION {p.add : p \in {q \in chinese_patterns :
                          \E c \in ChineseWords(text), a \in q.any : IsSubstr(a, c)}}

\* tools_managing.py:134-148 (str.isdigit is false of every word of letters)
FilteredWords(text) ==
  {w \in EnglishWords(text) :
     /\ w \notin all_stop_words
     /\ ~(Len(w) < 3 /\ w[1] \notin CJKChars)}

\* tools_managing.py:151-187
DomainKeywords(text) ==
  {t \in weather_terms \cup finance_terms \cup api_terms :
     IsSubstr(t, Lower(text)) /\ t \notin all_stop_words}
  \cup {l \in common_locations : IsSubstr(l, Lower(text))}
  \cup {c \in tech_companies : IsSubstr(c, Lower(text))}

\* extract_keywords (tools_managing.py:33-195)
extract_keywords(text0) ==
  UNION {(FilteredWords(text) \cup DomainKeywords(text) \cup ChineseKeywords(text))
           \ low_quality_keywords
         : text \in {SplitCamelCase(UnderscoresToSpaces(text0))}}

---------------------------------------------------------------------------
(* tools_managing.py: search_tool_by_keywords                              *)

WEATHER == <<"w", "e", "a", "t", "h", "e", "r">>
STOCK == <<"s", "t", "o", "c", "k">>
FINANCE == <<"f", "i", "n", "a", "n", "c", "e">>
MARKET == <<"m", "a", "r", "k", "e", "t">>
TEMPERATURE == <<"t", "e", "m", "p", "e", "r", "a", "t", "u", "r", "e">>
PRICE == <<"p", "r", "i", "c", "e">>

\* tools_managing.py:380-398: the keywords of the query, expanded
ExpandedKeywords(required_tool, task_keywords) ==
  LET search_keywords == extract_keywords(required_tool) \cup task_keywords
  IN  search_keywords \cup
      UNION {e.add : e \in {x \in keyword_expansions : x.key \in search_keywords}}

\* tools_managing.py:415
ToolKeywords(tool_data) == Range(Split(Get(tool_data, "keywords", <<>>)))

\* tools_managing.py:421
MatchingKeywords(tool_data, expanded) == expanded \cap ToolKeywords(tool_data)

\* tools_managing.py:425: the query keywords found in the description
DescMatches(tool_data, expanded) ==
  {kw \in expanded : IsSubstr(kw, Lower(Get(tool_data, "tool_description", <<>>)))}

\* tools_managing.py:429: the query keywords found in the name
NameMatches(tool_data, expanded) ==
  {kw \in expanded : IsSubstr(kw, Lower(Get(tool_data, "original_name", <<>>)))}

\* tools_managing.py:433-439: the query keywords that add 0.5 to
\* partial_matches (the inner loop breaks at the first tool keyword found)
PartialMatches(tool_data, expanded) ==
  {s \in expanded : \E t \in ToolKeywords(tool_data) :
     /\ Len(s) >= 4 /\ Len(t) >= 4
     /\ (IsSubstr(s, t) \/ IsSubstr(t, s))}

\* tools_managing.py:443-447: 1 when the 0.3 domain boost is given
DomainBoost(tool_data, expanded) ==
  IF WEATHER \in expanded /\ WEATHER \in ToolKeywords(tool_data) THEN 1
  ELSE IF STOCK \in expanded
          /\ {STOCK, FINANCE, MARKET} \cap ToolKeywords(tool_data) # {} THEN 1
  ELSE 0

\* tools_managing.py:459-463: 1 when the flat 0.3 bonus is given
AnchorBonus(tool_data, required_tool) ==
  IF (\E t \in {WEATHER, TEMPERATURE} : IsSubstr(t, Lower(required_tool)))
     /\ WEATHER \in ToolKeywords(tool_data) THEN 1
  ELSE IF (\E t \in {STOCK, PRICE, FINANCE} : IsSubstr(t, Lower(required_tool)))
          /\ {STOCK, FINANCE} \cap ToolKeywords(tool_data) # {} THEN 1
  ELSE 0

\* total_score with the keyword ratio weighted 0.3 instead of 0.4
total_score_low_weight(tool_data, expanded, required_tool) ==
  LET n == Cardinality(expanded)
      extras == DomainBoost(tool_data, expanded) + AnchorBonus(tool_data, required_tool)
  IN  IF n = 0 THEN [num |-> 6 * extras, den |-> 20]
      ELSE [num |-> 6 * Cardinality(MatchingKeywords(tool_data, expanded))
                    + 4 * Cardinality(DescMatches(tool_data, expanded))
                    + 2 * Cardinality(NameMatches(tool_data, expanded))
                    + 2 * Cardinality(PartialMatches(tool_data, expanded))
                    + 6 * n * extras,
            den |-> 20 * n]

\* tools_managing.py:422-463: total_score as the fraction num/den. With n
\* query keywords (n > 0), 0.4*k/n + 0.2*d/n + 0.1*m/n + 0.2*(0.5*p)/n
\* + 0.3*boost + 0.3*bonus = (8k + 4d + 2m + 2p + 6n*(boost + bonus)) / 20n;
\* with no query keyword the four ratios are 0.
total_score(tool_data, expanded, required_tool) ==
  LET n == Cardinality(expanded)
      extras == DomainBoost(tool_data, expanded) + AnchorBonus(tool_data, required_tool)
  IN  IF n = 0 THEN [num |-> 6 * extras, den |-> 20]
      ELSE [num |-> 8 * Cardinality(MatchingKeywords(tool_data, expanded))
                    + 4 * Cardinality(DescMatches(tool_data, expanded))
                    + 2 * Cardinality(NameMatches(tool_data, expanded))
                    + 2 * Cardinality(PartialMatches(tool_data, expanded))
                    + 6 * n * extras,
            den |-> 20 * n]

\* tools_managing.py:440: partial_score, partial_matches / len(expanded_keywords)
\* with 0.5 for each of PartialMatches, as the fraction num/den
partial_score(tool_data, expanded) ==
  IF expanded = {} THEN [num |-> 0, den |-> 1]
  ELSE [num |-> Cardinality(PartialMatches(tool_data, expanded)),
        den |-> 2 * Cardinality(expanded)]

\* score >= a/b and score > 0, for a fraction with a positive denominator
AtLeast(score, a, b) == score.num * b >= a * score.den

\* tools_managing.py:488: best_score >= 0.2
PassesThreshold(score) == AtLeast(score, 1, 5)

\* The files whose record ends as best_match when the loop keeps every
\* record with a score above 0 that it comes to, whatever it kept before
BestMatchesOfAnyScore(fs, expanded, required_tool) ==
  {f \in {g \in DOMAIN fs : JsonLoad(fs[g]).ok} :
     total_score(fs[f].data, expanded, required_tool).num > 0}

\* The files whose record can end as best_match: the loop keeps the first
\* record with the highest score above 0, in the order os.listdir gives.
BestMatches(fs, expanded, required_tool) ==
  LET readable == {f \in DOMAIN fs : JsonLoad(fs[f]).ok}
  IN  UNION {{f \in readable :
                /\ score[f].num > 0
                /\ \A g \in readable : score[g].num <= score[f].num} :
             score \in {[f \in readable |->
                           total_score(fs[f].data, expanded, required_tool)]}}

NoTool == [kind |-> "none"]

\* search_tool_by_keywords (tools_managing.py:365-493): what a call can end
\* with: None, a tool, or the KeyError of best_match['original_name'] at
\* line 489, which no try encloses.
search_tool_by_keywords(dir, fs, required_tool, task_keywords) ==
  IF ~dir THEN {NoTool}
  ELSE UNION {
    IF BestMatches(fs, expanded, required_tool) = {} THEN {NoTool}
    ELSE {IF ~PassesThreshold(total_score(fs[f].data, expanded, required_tool))
          THEN NoTool
          ELSE IF "original_name" \notin DOMAIN fs[f].data
          THEN [kind |-> "raise", error |-> "KeyError"]
          ELSE [kind |-> "tool", file |-> f, data |-> fs[f].data,
                match_score |-> total_score(fs[f].data, expanded, required_tool),
                score_breakdown |-> [partial_score |-> partial_score(fs[f].data, expanded)],
                matching_keywords |-> MatchingKeywords(fs[f].data, expanded)]
          : f \in BestMatches(fs, expanded, required_tool)}
    : expanded \in {ExpandedKeywords(required_tool, task_keywords)}}

---------------------------------------------------------------------------
(* tools_managing.py: generate_tool_keywords                               *)

\* tools_managing.py:220-266
search_variations ==
  {[base_term |-> <<"w", "e", "a", "t", "h", "e", "r">>,
    variations |-> {<<"w", "e", "a", "t", "h", "e", "r">>,
                    <<"t", "e", "m", "p", "e", "r", "a", "t", "u", "r", "e">>,
                    <<"f", "o", "r", "e", "c", "a", "s", "t">>,
                    <<"c", "l", "i", "m", "a", "t", "e">>,
                    <<"c", "o", "n", "d", "i", "t", "i", "o", "n">>,
                    <<"h", "u", "m", "i", "d", "i", "t", "y">>,
                    <<"w", "i", "n", "d">>, <<"r", "a", "i", "n">>,
                    <<"s", "u", "n", "n", "y">>,
                    <<"c", "l", "o", "u", "d", "y">>, <<"U5929", "U6C14">>,
                    <<"U6E29", "U5EA6">>, <<"U9884", "U62A5">>}],
   [base_term |-> <<"t", "e", "m", "p", "e", "r", "a", "t", "u", "r", "e">>,
    variations |-> {<<"t", "e", "m", "p", "e", "r", "a", "t", "u", "r", "e">>,
                    <<"t", "e", "m", "p">>, <<"d", "e", "g", "r", "e", "e">>,
                    <<"c", "e", "l", "s", "i", "u", "s">>,
                    <<"f", "a", "h", "r", "e", "n", "h", "e", "i", "t">>,
                    <<"U6E29", "U5EA6">>}],
   [base_term |-> <<"f", "o", "r", "e", "c", "a", "s", "t">>,
    variations |-> {<<"f", "o", "r", "e", "c", "a", "s", "t">>,
                    <<"p", "r", "e", "d", "i", "c", "t", "i", "o", "n">>,
                    <<"o", "u", "t", "l", "o", "o", "k">>,
                    <<"U9884", "U62A5">>}],
   [base_term |-> <<"s", "t", "o", "c", "k">>,
    variations |-> {<<"s", "t", "o", "c", "k">>, <<"s", "h", "a", "r", "e">>,
                    <<"e", "q", "u", "i", "t", "y">>,
                    <<"t", "i", "c", "k", "e", "r">>,
                    <<"s", "y", "m", "b", "o", "l">>, <<"U80A1", "U7968">>,
                    <<"U80A1", "U4EF7">>}],
   [base_term |-> <<"p", "r", "i", "c", "e">>,
    variations |-> {<<"p", "r", "i", "c", "e">>, <<"c", "o", "s", "t">>,
                    <<"v", "a", "l", "u", "e">>, <<"q", "u", "o", "t", "e">>,
                    <<"r", "a", "t", "e">>, <<"U4EF7", "U683C">>,
                    <<"U4EF7", "U503C">>}],
   [base_term |-> <<"m", "a", "r", "k", "e", "t">>,
    variations |-> {<<"m", "a", "r", "k", "e", "t">>,
                    <<"t", "r", "a", "d", "i", "n", "g">>,
                    <<"e", "x", "c", "h", "a", "n", "g", "e">>,
                    <<"n", "a", "s", "d", "a", "q">>, <<"n", "y", "s", "e">>,
                    <<"U5E02", "U573A">>, <<"U4EA4", "U6613">>}],
   [base_term |-> <<"f", "i", "n", "a", "n", "c", "e">>,
    variations |-> {<<"f", "i", "n", "a", "n", "c", "e">>,
                    <<"f", "i", "n", "a", "n", "c", "i", "a", "l">>,
                    <<"i", "n", "v", "e", "s", "t", "m", "e", "n", "t">>,
                    <<"m", "o", "n", "e", "y">>, <<"U91D1", "U878D">>,
                    <<"U8D22", "U52A1">>}],
   [base_term |-> <<"c", "o", "m", "p", "a", "n", "y">>,
    variations |-> {<<"c", "o", "m", "p", "a", "n", "y">>,
                    <<"c", "o", "r", "p", "o", "r", "a", "t", "i", "o", "n">>,
                    <<"b", "u", "s", "i", "n", "e", "s", "s">>,
                    <<"f", "i", "r", "m">>, <<"U516C", "U53F8">>,
                    <<"U4F01", "U4E1A">>}],
   [base_term |-> <<"a", "p", "p", "l", "e">>,
    variations |-> {<<"a", "p", "p", "l", "e">>, <<"a", "a", "p", "l">>,
                    <<"U82F9", "U679C">>}],
   [base_term |-> <<"n", "v", "i", "d", "i", "a">>,
    variations |-> {<<"n", "v", "i", "d", "i", "a">>, <<"n", "v", "d", "a">>,
                    <<"U82F1", "U4F1F", "U8FBE">>}],
   [base_term |-> <<"t", "e", "s", "l", "a">>,
    variations |-> {<<"t", "e", "s", "l", "a">>, <<"t", "s", "l", "a">>,
                    <<"U7279", "U65AF", "U62C9">>}],
   [base_term |-> <<"m", "i", "c", "r", "o", "s", "o", "f", "t">>,
    variations |-> {<<"m", "i", "c", "r", "o", "s", "o", "f", "t">>,
                    <<"m", "s", "f", "t">>, <<"U5FAE", "U8F6F">>}],
   [base_term |-> <<"b", "e", "i", "j", "i", "n", "g">>,
    variations |-> {<<"b", "e", "i", "j", "i", "n", "g">>,
                    <<"p", "e", "k", "i", "n", "g">>, <<"U5317", "U4EAC">>}],
   [base_term |-> <<"s", "h", "a", "n", "g", "h", "a", "i">>,
    variations |-> {<<"s", "h", "a", "n", "g", "h", "a", "i">>,
                    <<"U4E0A", "U6D77">>}],
   [base_term |-> <<"n", "e", "w", "y", "o", "r", "k">>,
    variations |-> {<<"n", "e", "w", "y", "o", "r", "k">>, <<"n", "y", "c">>,
                    <<"U7EBD", "U7EA6">>}],
   [base_term |-> <<"l", "o", "n", "d", "o", "n">>,
    variations |-> {<<"l", "o", "n", "d", "o", "n">>, <<"U4F26", "U6566">>}],
   [base_term |-> <<"t", "o", "k", "y", "o">>,
    variations |-> {<<"t", "o", "k", "y", "o">>, <<"U4E1C", "U4EAC">>}],
   [base_term |-> <<"g", "e", "t">>,
    variations |-> {<<"g", "e", "t">>, <<"f", "e", "t", "c", "h">>,
                    <<"r", "e", "t", "r", "i", "e", "v", "e">>,
                    <<"o", "b", "t", "a", "i", "n">>,
                    <<"a", "c", "q", "u", "i", "r", "e">>,
                    <<"U83B7", "U53D6">>, <<"U67E5", "U8BE2">>}],
   [base_term |-> <<"c", "h", "e", "c", "k">>,
    variations |-> {<<"c", "h", "e", "c", "k">>, <<"v", "i", "e", "w">>,
                    <<"s", "e", "e">>, <<"l", "o", "o", "k">>,
                    <<"q", "u", "e", "r", "y">>, <<"U67E5", "U770B">>,
                    <<"U67E5", "U8BE2">>}],
   [base_term |-> <<"d", "o", "w", "n", "l", "o", "a", "d">>,
    variations |-> {<<"d", "o", "w", "n", "l", "o", "a", "d">>,
                    <<"s", "a", "v", "e">>, <<"f", "e", "t", "c", "h">>,
                    <<"U4E0B", "U8F7D">>}],
   [base_term |-> <<"s", "e", "a", "r", "c", "h">>,
    variations |-> {<<"s", "e", "a", "r", "c", "h">>, <<"f", "i", "n", "d">>,
                    <<"l", "o", "o", "k", "u", "p">>,
                    <<"q", "u", "e", "r", "y">>, <<"U641C", "U7D22">>,
                    <<"U67E5", "U627E">>}],
   [base_term |-> <<"c", "u", "r", "r", "e", "n", "t">>,
    variations |-> {<<"c", "u", "r", "r", "e", "n", "t">>, <<"n", "o", "w">>,
                    <<"t", "o", "d", "a", "y">>,
                    <<"l", "a", "t", "e", "s", "t">>,
                    <<"r", "e", "c", "e", "n", "t">>, <<"U5F53", "U524D">>,
                    <<"U4ECA", "U5929">>, <<"U6700", "U65B0">>}],
   [base_term |-> <<"r", "e", "a", "l", "t", "i", "m", "e">>,
    variations |-> {<<"r", "e", "a", "l", "t", "i", "m", "e">>,
                    <<"l", "i", "v", "e">>,
                    <<"i", "n", "s", "t", "a", "n", "t">>,
                    <<"i", "m", "m", "e", "d", "i", "a", "t", "e">>,
                    <<"U5B9E", "U65F6">>}],
   [base_term |-> <<"d", "a", "t", "a">>,
    variations |-> {<<"d", "a", "t", "a">>, <<"i", "n", "f", "o">>,
                    <<"i", "n", "f", "o", "r", "m", "a", "t", "i", "o", "n">>,
                    <<"d", "e", "t", "a", "i", "l", "s">>,
                    <<"U6570", "U636E">>, <<"U4FE1", "U606F">>}],
   [base_term |-> <<"a", "p", "i">>,
    variations |-> {<<"a", "p", "i">>,
                    <<"i", "n", "t", "e", "r", "f", "a", "c", "e">>,
                    <<"s", "e", "r", "v", "i", "c", "e">>,
                    <<"e", "n", "d", "p", "o", "i", "n", "t">>,
                    <<"U63A5", "U53E3">>}],
   [base_term |-> <<"v", "i", "d", "e", "o">>,
    variations |-> {<<"v", "i", "d", "e", "o">>, <<"m", "o", "v", "i", "e">>,
                    <<"c", "l", "i", "p">>, <<"m", "e", "d", "i", "a">>,
                    <<"U89C6", "U9891">>}],
   [base_term |-> <<"y", "o", "u", "t", "u", "b", "e">>,
    variations |-> {<<"y", "o", "u", "t", "u", "b", "e">>, <<"y", "t">>,
                    <<"v", "i", "d", "e", "o">>, <<"U6CB9", "U7BA1">>}],
   [base_term |-> <<"n", "e", "w", "s">>,
    variations |-> {<<"n", "e", "w", "s">>,
                    <<"a", "r", "t", "i", "c", "l", "e">>,
                    <<"r", "e", "p", "o", "r", "t">>,
                    <<"h", "e", "a", "d", "l", "i", "n", "e">>,
                    <<"U65B0", "U95FB">>, <<"U8D44", "U8BAF">>}]}

\* tools_managing.py:303-308
exclude_words ==
  {<<"a", "n", "y">>, <<"a", "l", "l">>, <<"m", "a", "i", "n">>,
   <<"s", "e", "l", "f">>, <<"n", "o", "n", "e">>, <<"t", "r", "u", "e">>,
   <<"f", "a", "l", "s", "e">>, <<"d", "e", "f">>, <<"c", "l", "a", "s", "s">>,
   <<"i", "m", "p", "o", "r", "t">>, <<"r", "e", "t", "u", "r", "n">>,
   <<"p", "r", "i", "n", "t">>, <<"i", "n", "p", "u", "t">>, <<"s", "t", "r">>,
   <<"i", "n", "t">>, <<"f", "l", "o", "a", "t">>, <<"d", "i", "c", "t">>,
   <<"l", "i", "s", "t">>, <<"s", "e", "t">>, <<"t", "u", "p", "l", "e">>,
   <<"a", "r", "g", "s">>, <<"k", "w", "a", "r", "g", "s">>,
   <<"p", "a", "r", "a", "m">>, <<"v", "a", "l", "u", "e">>,
   <<"i", "t", "e", "m">>, <<"o", "b", "j", "e", "c", "t">>}

\* Whether p, a text in lower case, is at position i of s, in any letter case
MatchesAtIgnoringCase(s, i, p) ==
  /\ i + Len(p) - 1 <= Len(s)
  /\ \A j \in 1..Len(p) : LowerChar(s[i + j - 1]) = p[j]

\* Whether p is at position i of s
MatchesAt(s, i, p) ==
  /\ i + Len(p) - 1 <= Len(s)
  /\ \A j \in 1..Len(p) : s[i + j - 1] = p[j]

\* Where the longest run of characters of cs that starts at position i
\* ends (i - 1 when s[i] is not in cs)
RECURSIVE RunEnd(_, _, _)
RunEnd(s, i, cs) ==
  IF i <= Len(s) /\ s[i] \in cs THEN RunEnd(s, i + 1, cs) ELSE i - 1

\* The same for the characters that are not in cs
RECURSIVE RunEndOutside(_, _, _)
RunEndOutside(s, i, cs) ==
  IF i <= Len(s) /\ s[i] \notin cs THEN RunEndOutside(s, i + 1, cs) ELSE i - 1

\* re.compile(r'import\s+(\w+)|from\s+(\w+)', re.IGNORECASE).findall(code),
\* from position i on: the names captured
RECURSIVE ImportedNames(_, _)
ImportedNames(code, i) ==
  IF i > Len(code) THEN {}
  ELSE LET word   == IF MatchesAtIgnoringCase(code, i, <<"i", "m", "p", "o", "r", "t">>) THEN 6
                     ELSE IF MatchesAtIgnoringCase(code, i, <<"f", "r", "o", "m">>) THEN 4
                     ELSE 0
           blanks == RunEnd(code, i + word, SpaceChars)
           name   == RunEnd(code, blanks + 1, WordChars)
       IN  IF word > 0 /\ blanks >= i + word /\ name > blanks
           THEN {SubSeq(code, blanks + 1, name)} \cup ImportedNames(code, name + 1)
           ELSE ImportedNames(code, i + 1)

\* re.compile(r'https?://(?:www\.)?([^/\s]+)').findall(code), from position
\* i on: the hosts captured
RECURSIVE UrlHosts(_, _)
UrlHosts(code, i) ==
  IF i > Len(code) THEN {}
  ELSE LET scheme == IF MatchesAt(code, i, <<"h", "t", "t", "p", "s", ":", "/", "/">>) THEN 8
                     ELSE IF MatchesAt(code, i, <<"h", "t", "t", "p", ":", "/", "/">>) THEN 7
                     ELSE 0
           www    == IF /\ MatchesAt(code, i + scheme, <<"w", "w", "w", ".">>)
                        /\ RunEndOutside(code, i + scheme + 4, {"/"} \cup SpaceChars)
                             >= i + scheme + 4
                     THEN 4 ELSE 0
           first  == i + scheme + www
           last   == RunEndOutside(code, first, {"/"} \cup SpaceChars)
       IN  IF scheme > 0 /\ last >= first
           THEN {SubSeq(code, first, last)} \cup UrlHosts(code, last + 1)
           ELSE UrlHosts(code, i + 1)

\* url.split('.')[0]
BeforeDot(url) == SubSeq(url, 1, RunEndOutside(url, 1, {"."}))

\* sorted(strings)
RECURSIVE SortStrings(_)
SortStrings(strings) ==
  IF strings = {} THEN <<>>
  ELSE LET least == CHOOSE x \in strings : \A y \in strings \ {x} : StrLess(x, y)
       IN  <<least>> \o SortStrings(strings \ {least})

\* The keywords before the filter and the sort (lines 216-300), for the
\* lower-cased text and code.
AllKeywords(tool_name, tool_description, required_tool, code, text_to_analyze, code_lower) ==
  extract_keywords(tool_name) \cup extract_keywords(tool_description)
  \cup extract_keywords(required_tool)
  \cup UNION {v.variations :
                v \in {w \in search_variations : IsSubstr(w.base_term, text_to_analyze)}}
  \cup {Lower(lib) : lib \in {n \in ImportedNames(code, 1) : Len(n) > 2}}
  \cup {domain \in {BeforeDot(url) : url \in UrlHosts(code, 1)} :
          Len(domain) > 2 /\ domain \notin {<<"a", "p", "i">>, <<"w", "w", "w">>}}
  \cup (IF IsSubstr(<<"w", "e", "a", "t", "h", "e", "r">>, code_lower) \/ IsSubstr(<<"t", "e", "m", "p", "e", "r", "a", "t", "u", "r", "e">>, code_lower)
        THEN {<<"w", "e", "a", "t", "h", "e", "r">>, <<"t", "e", "m", "p", "e", "r", "a", "t", "u", "r", "e">>, <<"f", "o", "r", "e", "c", "a", "s", "t">>, <<"c", "l", "i", "m", "a", "t", "e">>} ELSE {})
  \cup (IF IsSubstr(<<"s", "t", "o", "c", "k">>, code_lower) \/ IsSubstr(<<"t", "i", "c", "k", "e", "r">>, code_lower)
        THEN {<<"s", "t", "o", "c", "k">>, <<"p", "r", "i", "c", "e">>, <<"m", "a", "r", "k", "e", "t">>, <<"t", "r", "a", "d", "i", "n", "g">>, <<"f", "i", "n", "a", "n", "c", "e">>} ELSE {})
  \cup (IF IsSubstr(<<"y", "o", "u", "t", "u", "b", "e">>, code_lower) \/ IsSubstr(<<"v", "i", "d", "e", "o">>, code_lower)
        THEN {<<"y", "o", "u", "t", "u", "b", "e">>, <<"v", "i", "d", "e", "o">>, <<"d", "o", "w", "n", "l", "o", "a", "d">>, <<"m", "e", "d", "i", "a">>} ELSE {})

generate_tool_keywords(tool_name, tool_description, required_tool, code) ==
  LET all_keywords ==
        AllKeywords(tool_name, tool_description, required_tool, code,
                    Lower(tool_name \o <<" ">> \o tool_description \o <<" ">>
                          \o required_tool \o <<" ">> \o code),
                    Lower(code))
      filtered_keywords ==
        {keyword \in all_keywords : keyword \notin exclude_words /\ Len(keyword) >= 2}
  IN  JoinSp(Prefix(SortStrings(filtered_keywords), 50))

---------------------------------------------------------------------------
(* code_generating.py: clean_and_validate_commands                         *)

\* str.strip()
StripSpace(s) == Strip(s, SpaceChars)

BACKTICKS == <<"BACKTICK", "BACKTICK", "BACKTICK">>

\* [\$>#]
PromptSigns == {"$", ">", "#"}

\* re.sub(r'^[\$>#]\s*|^```\w*\s*|\s*```$', '', cmd): a prompt sign or an
\* opening fence is removed at the start, a closing fence at the end.
StripPromptAndFences(cmd) ==
  LET first == IF cmd # <<>> /\ cmd[1] \in PromptSigns
               THEN RunEnd(cmd, 2, SpaceChars) + 1
               ELSE IF MatchesAt(cmd, 1, BACKTICKS)
               THEN RunEnd(cmd, RunEnd(cmd, 4, WordChars) + 1, SpaceChars) + 1
               ELSE 1
      rest  == SubSeq(cmd, first, Len(cmd))
  IN  IF Len(rest) >= 3 /\ MatchesAt(rest, Len(rest) - 2, BACKTICKS)
      THEN RStrip(SubSeq(rest, 1, Len(rest) - 3), SpaceChars)
      ELSE rest

\* re.sub(r'#.*$', '', cmd): the text from the first '#' that no line break
\* follows is removed.
StripComment(cmd) ==
  LET marks == {p \in 1..Len(cmd) :
                  cmd[p] = "#" /\ \A k \in (p + 1)..Len(cmd) : cmd[k] # "\n"}
  IN  IF marks = {} THEN cmd
      ELSE SubSeq(cmd, 1, (CHOOSE p \in marks : \A r \in marks : p <= r) - 1)

\* The programs a command may start with (line 72)
AllowedPrograms ==
  {<<"p", "i", "p">>, <<"p", "i", "p", "3">>, <<"n", "p", "m">>, <<"y", "a", "r", "n">>, <<"p", "y", "t", "h", "o", "n">>, <<"p", "y", "t", "e", "s", "t">>, <<"u", "v", "i", "c", "o", "r", "n">>, <<"f", "l", "a", "s", "k">>}

\* [a-zA-Z0-9._-]
PackageChars == Letters \cup Digits \cup {".", "_", "-"}

\* re.match(r'^(?:pip|...|flask)\s+[a-zA-Z0-9._-]+(?:\s+[^|>&;]+)*$', cmd)
ValidCommand(cmd) ==
  \E program \in AllowedPrograms :
    /\ MatchesAt(cmd, 1, program)
    /\ LET blanks == RunEnd(cmd, Len(program) + 1, SpaceChars)
           word   == RunEnd(cmd, blanks + 1, PackageChars)
           rest   == SubSeq(cmd, word + 1, Len(cmd))
       IN  /\ blanks > Len(program)
           /\ word > blanks
           /\ \/ rest = <<>>
              \/ /\ Len(rest) >= 2
                 /\ rest[1] \in SpaceChars
                 /\ \A k \in 1..Len(rest) : rest[k] \notin {"|", ">", "&", ";"}

\* clean_and_validate_commands without the whitelist of line 71: every
\* command that is left after the cleaning is kept
RECURSIVE clean_commands_unvalidated(_)
clean_commands_unvalidated(commands) ==
  IF commands = <<>> THEN <<>>
  ELSE LET cmd  == StripSpace(StripComment(StripPromptAndFences(StripSpace(Head(commands)))))
           rest == clean_commands_unvalidated(Tail(commands))
       IN  IF cmd = <<>> THEN rest ELSE <<cmd>> \o rest

\* One command after the cleaning of lines 61-65
CleanCommand(cmd) == StripSpace(StripComment(StripPromptAndFences(StripSpace(cmd))))

\* clean_and_validate_commands: the commands kept, cleaned, in order
RECURSIVE clean_and_validate_commands(_)
clean_and_validate_commands(commands) ==
  IF commands = <<>> THEN <<>>
  ELSE LET cmd  == CleanCommand(Head(commands))
           rest == clean_and_validate_commands(Tail(commands))
       IN  IF \/ cmd = <<>>
              \/ MatchesAt(cmd, 1, <<"#", "#">>) \/ MatchesAt(cmd, 1, <<"-", "-">>)
              \/ MatchesAt(cmd, 1, <<"/", "/">>)
              \/ ~ValidCommand(cmd)
           THEN rest
           ELSE <<cmd>> \o rest

---------------------------------------------------------------------------
(* code_generating.py: generate_code, clean_and_validate_code;             *)
(* tools_managing.py: generate_code_description_v2                         *)

\* What get_model_response gives: a text, or it raises
ModelFailure == [failed |-> TRUE]

ModelText(text) == [failed |-> FALSE, text |-> text]

Max(a, b) == IF a >= b THEN a ELSE b

\* The last position of lo..hi that holds a line break (0 when none does)
RECURSIVE LastBreak(_, _, _)
LastBreak(s, lo, hi) ==
  IF hi < lo THEN 0 ELSE IF s[hi] = "\n" THEN hi ELSE LastBreak(s, lo, hi - 1)

\* generate_code (lines 181-188): the response stripped, without the
\* opening fence (^```\w*\n) and the closing fence (```$); "" when the call
\* of the model raises.
generate_code(response) ==
  IF response.failed THEN <<>>
  ELSE LET code  == StripSpace(response.text)
           word  == RunEnd(code, 4, WordChars)
           first == IF MatchesAt(code, 1, BACKTICKS) /\ word < Len(code)
                       /\ code[word + 1] = "\n"
                    THEN word + 2 ELSE 1
           rest  == SubSeq(code, first, Len(code))
       IN  IF Len(rest) >= 3 /\ MatchesAt(rest, Len(rest) - 2, BACKTICKS)
           THEN SubSeq(rest, 1, Len(rest) - 3)
           ELSE rest

\* re.sub(r';\s*(?=\n)', '', code), from position i on: a semicolon goes
\* with the white space up to the last line break of the run after it.
RECURSIVE StripSemicolons(_, _)
StripSemicolons(code, i) ==
  IF i > Len(code) THEN <<>>
  ELSE LET break == LastBreak(code, i + 1, RunEnd(code, i + 1, SpaceChars))
       IN  IF code[i] = ";" /\ break > 0
           THEN StripSemicolons(code, break)
           ELSE <<code[i]>> \o StripSemicolons(code, i + 1)

\* re.sub(r'\t', '    ', code)
RECURSIVE TabsToSpaces(_)
TabsToSpaces(code) ==
  IF code = <<>> THEN <<>>
  ELSE (IF Head(code) = "\t" THEN <<" ", " ", " ", " ">> ELSE <<Head(code)>>)
       \o TabsToSpaces(Tail(code))

\* re.sub(r'\s+$', '', code, flags=re.MULTILINE), from position i on: a run
\* of white space goes when it ends the text, and up to its last line break
\* when it holds one after its first character.
RECURSIVE StripTrailing(_, _)
StripTrailing(code, i) ==
  IF i > Len(code) THEN <<>>
  ELSE IF code[i] \notin SpaceChars
  THEN <<code[i]>> \o StripTrailing(code, i + 1)
  ELSE LET run   == RunEnd(code, i, SpaceChars)
           break == LastBreak(code, i + 1, run)
       IN  IF run = Len(code) THEN <<>>
           ELSE SubSeq(code, Max(i, break), run) \o StripTrailing(code, run + 1)

\* clean_and_validate_code (lines 207-214)
clean_and_validate_code(code) ==
  IF StripSpace(code) = <<>> THEN <<>>
  ELSE StripTrailing(TabsToSpaces(StripSemicolons(code, 1)), 1)

\* generate_code_description_v2 (tools_managing.py:591-597), for a response
\* that is a text
generate_code_description_v2(response) ==
  LET description == StripSpace(response.text)
  IN  IF Len(description) > 100
      THEN SubSeq(description, 1, 97) \o <<".", ".", ".">>
      ELSE description

---------------------------------------------------------------------------
(* tool_searching.py: score_tool                                           *)

\* tool_searching.py:273
api_indicators ==
  <<<<"a", "p", "i">>, <<"s", "d", "k">>, <<"c", "l", "i", "e", "n", "t">>,
    <<"w", "r", "a", "p", "p", "e", "r">>,
    <<"o", "f", "f", "i", "c", "i", "a", "l">>,
    <<"e", "n", "d", "p", "o", "i", "n", "t">>,
    <<"r", "e", "q", "u", "e", "s", "t">>,
    <<"r", "e", "s", "p", "o", "n", "s", "e">>,
    <<"r", "e", "s", "t", "f", "u", "l">>,
    <<"r", "e", "s", "t", " ", "a", "p", "i">>,
    <<"l", "i", "b", "r", "a", "r", "y">>>>

\* tool_searching.py:281
package_indicators ==
  <<<<"p", "i", "p", " ", "i", "n", "s", "t", "a", "l", "l">>,
    <<"p", "y", "t", "h", "o", "n", " ", "-", "m", " ", "p", "i", "p">>,
    <<"s", "e", "t", "u", "p", ".", "p", "y">>, <<"p", "y", "p", "i">>,
    <<"r", "e", "q", "u", "i", "r", "e", "m", "e", "n", "t", "s">>,
    <<"i", "m", "p", "o", "r", "t">>, <<"f", "r", "o", "m">>,
    <<"p", "a", "c", "k", "a", "g", "e">>>>

\* tool_searching.py:289
auth_patterns ==
  <<<<"a", "p", "i", "_", "k", "e", "y">>,
    <<"a", "p", "i", " ", "k", "e", "y">>, <<"a", "p", "i", "k", "e", "y">>,
    <<"a", "p", "i", "-", "k", "e", "y">>, <<"t", "o", "k", "e", "n">>,
    <<"a", "u", "t", "h", "e", "n", "t", "i", "c", "a", "t", "i", "o", "n">>,
    <<"a", "u", "t", "h">>,
    <<"c", "r", "e", "d", "e", "n", "t", "i", "a", "l", "s">>,
    <<"s", "e", "c", "r", "e", "t">>, <<"b", "e", "a", "r", "e", "r">>>>

\* tool_searching.py:297
data_quality_patterns ==
  <<<<"r", "e", "a", "l", "-", "t", "i", "m", "e">>,
    <<"r", "e", "a", "l", "t", "i", "m", "e">>, <<"l", "i", "v", "e">>,
    <<"c", "u", "r", "r", "e", "n", "t">>, <<"l", "a", "t", "e", "s", "t">>,
    <<"a", "c", "c", "u", "r", "a", "t", "e">>,
    <<"r", "e", "l", "i", "a", "b", "l", "e">>,
    <<"o", "f", "f", "i", "c", "i", "a", "l">>,
    <<"v", "e", "r", "i", "f", "i", "e", "d">>,
    <<"u", "p", "-", "t", "o", "-", "d", "a", "t", "e">>>>

\* tool_searching.py:305
doc_quality_indicators ==
  <<<<"e", "x", "a", "m", "p", "l", "e">>, <<"u", "s", "a", "g", "e">>,
    <<"q", "u", "i", "c", "k", " ", "s", "t", "a", "r", "t">>,
    <<"g", "e", "t", "t", "i", "n", "g", " ", "s", "t", "a", "r", "t", "e", "d">>,
    <<"r", "e", "s", "p", "o", "n", "s", "e", " ", "f", "o", "r", "m", "a", "t">>,
    <<"p", "a", "r", "a", "m", "e", "t", "e", "r", "s">>,
    <<"t", "u", "t", "o", "r", "i", "a", "l">>, <<"g", "u", "i", "d", "e">>>>

InstallationNotFound == <<"I", "n", "s", "t", "a", "l", "l", "a", "t", "i", "o", "n", " ", "i", "n", "s", "t", "r", "u", "c", "t", "i", "o", "n", "s", " ", "n", "o", "t", " ", "f", "o", "u", "n", "d">>
UsageNotFound        == <<"U", "s", "a", "g", "e", " ", "i", "n", "s", "t", "r", "u", "c", "t", "i", "o", "n", "s", " ", "n", "o", "t", " ", "f", "o", "u", "n", "d">>

\* A score is counted in units of 1/250 point, so that the star score
\* stars / 5000 * 20 of every star count is a whole number of units.
ScoreUnit == 250
max_stars == 5000

\* sum(1 for indicator in indicators if Hit(indicator))
CountHits(indicators, Hit(_)) ==
  Cardinality({i \in 1..Len(indicators) : Hit(indicators[i])})

\* stars / max_stars * 20 without the cap of min
star_score_uncapped(repo) == (repo.stargazers_count * 20 * ScoreUnit) \div max_stars

\* min(20, stars / max_stars * 20), in units
star_score(repo) == Min(20 * ScoreUnit, (repo.stargazers_count * 20 * ScoreUnit) \div max_stars)

doc_score(docs) ==
  (IF docs.installation # InstallationNotFound THEN 10 ELSE 0)
  + (IF docs.usage # UsageNotFound THEN 10 ELSE 0)

\* (repo['name'] + ' ' + (repo['description'] or '')).lower()
NameDesc(repo) ==
  Lower(repo.name \o <<" ">> \o (IF repo.description = NoValue THEN <<>> ELSE repo.description))

\* (docs['installation'] + ' ' + docs['usage']).lower()
DocsText(docs) == Lower(docs.installation \o <<" ">> \o docs.usage)

\* The quality bonus of the two lower-cased texts (lines 273-312).
QualityOf(name_desc, docs_text) ==
  LET InEither(indicator) == IsSubstr(indicator, name_desc) \/ IsSubstr(indicator, docs_text)
      InDocs(indicator)   == IsSubstr(indicator, docs_text)
  IN  Min(20,
          Min(8, CountHits(api_indicators, InEither) * 2)
          + Min(3, CountHits(package_indicators, InDocs))
          + (IF CountHits(auth_patterns, InDocs) > 0 THEN 3 ELSE 0)
          + (IF CountHits(data_quality_patterns, InDocs) > 0 THEN 3 ELSE 0)
          + Min(3, CountHits(doc_quality_indicators, InDocs)))

quality_bonus(repo, docs) == QualityOf(NameDesc(repo), DocsText(docs))

\* The relevance score of the keyword list (lines 318-330).
RelevanceOf(keywords, name_desc, steps) ==
  LET InNameDesc(keyword) == IsSubstr(keyword, name_desc)
      StepHit(step) == \E i \in 1..Len(keywords) : IsSubstr(keywords[i], Lower(step))
  IN  Min(20, 5 * CountHits(keywords, InNameDesc) + 3 * CountHits(steps, StepHit))

relevance_score(repo, steps, search_keyword) ==
  RelevanceOf(Split(Lower(search_keyword)), NameDesc(repo), steps)

\* updated_at is absent or null, a text that strptime rejects, or a date;
\* a date is given by its age in days when the candidate is scored.
NoDate        == [kind |-> "none"]
MalformedDate == [kind |-> "malformed"]
DateAged(days_old) == [kind |-> "date", days_old |-> days_old]

freshness_score(repo) ==
  IF repo.updated_at.kind # "date" THEN 0
  ELSE IF repo.updated_at.days_old < 30 THEN 20
  ELSE IF repo.updated_at.days_old < 90 THEN 15
  ELSE IF repo.updated_at.days_old < 180 THEN 10
  ELSE IF repo.updated_at.days_old < 365 THEN 5
  ELSE 0

PYTHON == <<"p", "y", "t", "h", "o", "n">>

\* language = repo.get('language', ''); language.lower() if language else ''
LanguageOf(repo) ==
  IF "language" \notin DOMAIN repo \/ repo.language = NoValue THEN <<>>
  ELSE Lower(repo.language)

\* score_tool without the language gate
score_tool_without_gate(repo, docs, question, steps, search_keyword) ==
  [score    |-> star_score(repo)
                + ScoreUnit * (doc_score(docs) + quality_bonus(repo, docs)
                               + relevance_score(repo, steps, search_keyword)
                               + freshness_score(repo)),
   language |-> LanguageOf(repo)]

\* score_tool: the pair (total_score, language), with the total in units.
score_tool(repo, docs, question, steps, search_keyword) ==
  LET language == LanguageOf(repo)
  IN  IF language # PYTHON
      THEN [score |-> 0, language |-> language]
      ELSE [score    |-> star_score(repo)
                         + ScoreUnit * (doc_score(docs) + quality_bonus(repo, docs)
                                        + relevance_score(repo, steps, search_keyword)
                                        + freshness_score(repo)),
            language |-> language]

---------------------------------------------------------------------------
(* tool_searching.py: find_best_tools_with_exclusion                       *)

\* What requests.get gives for one search variant: a response with its
\* status code, its X-RateLimit-Remaining header ("absent" when the header
\* is missing) and the repositories of its JSON body, or a
\* requests.exceptions.RequestException.
Response(status_code, remaining, items) ==
  [kind |-> "response", status_code |-> status_code, remaining |-> remaining, items |-> items]

RequestException == [kind |-> "exception"]

\* The four search variants of build_github_search_url, by strategy number.
search_strategies == <<1, 2, 3, 4>>

\* The loop of lines 571-582 without seen_repos: a repository is added each
\* time a variant finds it
RECURSIVE AddReposSeenOrNot(_, _, _)
AddReposSeenOrNot(repos, excluded_tools, collected) ==
  IF repos = <<>> THEN collected
  ELSE LET repo == Head(repos)
       IN  AddReposSeenOrNot(Tail(repos), excluded_tools,
                    IF repo.name \notin excluded_tools /\ repo.id # 0
                    THEN [seen_repos |-> collected.seen_repos \cup {repo.id},
                          all_repos  |-> Append(collected.all_repos, repo)]
                    ELSE collected)

\* The loop over the repositories of one response (lines 571-582). An id
\* is a number; 0 stands for every id that is false in a condition (a
\* missing or null id as well).
RECURSIVE AddRepos(_, _, _)
AddRepos(repos, excluded_tools, collected) ==
  IF repos = <<>> THEN collected
  ELSE LET repo == Head(repos)
           keep == /\ repo.name \notin excluded_tools
                   /\ repo.id # 0
                   /\ repo.id \notin collected.seen_repos
       IN  AddRepos(Tail(repos), excluded_tools,
                    IF keep
                    THEN [seen_repos |-> collected.seen_repos \cup {repo.id},
                          all_repos  |-> Append(collected.all_repos, repo)]
                    ELSE collected)

\* The loop over the search variants without the early stop of lines 587-588
RECURSIVE RunStrategiesToTheEnd(_, _, _, _, _, _)
RunStrategiesToTheEnd(responses, idx, excluded_tools, max_tools, collected, issued) ==
  IF idx > Len(search_strategies) THEN [collected |-> collected, issued |-> issued]
  ELSE LET response == responses[idx]
           now      == Append(issued, search_strategies[idx])
       IN  IF response.kind = "exception"
           THEN RunStrategiesToTheEnd(responses, idx + 1, excluded_tools, max_tools, collected, now)
           ELSE IF response.status_code = 403 /\ response.remaining = "0"
           THEN [collected |-> collected, issued |-> now]
           ELSE IF response.status_code # 200
           THEN RunStrategiesToTheEnd(responses, idx + 1, excluded_tools, max_tools, collected, now)
           ELSE RunStrategiesToTheEnd(responses, idx + 1, excluded_tools, max_tools,
                                      AddRepos(response.items, excluded_tools, collected), now)

\* The loop over the search variants in which a request error leaves the
\* function with nothing collected
RECURSIVE RunStrategiesOrGiveUp(_, _, _, _, _, _)
RunStrategiesOrGiveUp(responses, idx, excluded_tools, max_tools, collected, issued) ==
  IF idx > Len(search_strategies) THEN [collected |-> collected, issued |-> issued]
  ELSE LET response == responses[idx]
           now      == Append(issued, search_strategies[idx])
       IN  IF response.kind = "exception"
           THEN [collected |-> [seen_repos |-> {}, all_repos |-> <<>>], issued |-> now]
           ELSE IF response.status_code = 403 /\ response.remaining = "0"
           THEN [collected |-> collected, issued |-> now]
           ELSE IF response.status_code # 200
           THEN RunStrategiesOrGiveUp(responses, idx + 1, excluded_tools, max_tools, collected, now)
           ELSE LET added == AddRepos(response.items, excluded_tools, collected)
                IN  IF Len(added.all_repos) >= max_tools * 3
                    THEN [collected |-> added, issued |-> now]
                    ELSE RunStrategiesOrGiveUp(responses, idx + 1, excluded_tools, max_tools, added, now)

\* The loop over the search variants (lines 552-592), from variant idx on:
\* the repositories collected and the variants issued.
RECURSIVE RunStrategies(_, _, _, _, _, _)
RunStrategies(responses, idx, excluded_tools, max_tools, collected, issued) ==
  IF idx > Len(search_strategies) THEN [collected |-> collected, issued |-> issued]
  ELSE LET response == responses[idx]
           now      == Append(issued, search_strategies[idx])
       IN  IF response.kind = "exception"
           THEN RunStrategies(responses, idx + 1, excluded_tools, max_tools, collected, now)
           ELSE IF response.status_code = 403 /\ response.remaining = "0"
           THEN [collected |-> collected, issued |-> now]
           ELSE IF response.status_code # 200
           THEN RunStrategies(responses, idx + 1, excluded_tools, max_tools, collected, now)
           ELSE LET added == AddRepos(response.items, excluded_tools, collected)
                IN  IF Len(added.all_repos) >= max_tools * 3
                    THEN [collected |-> added, issued |-> now]
                    ELSE RunStrategies(responses, idx + 1, excluded_tools, max_tools, added, now)

\* fetch_repository_readme(repo['url']): the documentation sections the
\* fetch extracts for the repository, sentinel texts when it finds none.
fetch_repository_readme(repo) == repo.docs

\* The tool_info record of lines 618-627.
ToolInfo(repo, docs, scored) ==
  [name         |-> repo.name,
   description  |-> IF repo.description \in {NoValue, <<>>}
                    THEN <<"N", "o", " ", "d", "e", "s", "c", "r", "i", "p", "t", "i", "o", "n", " ", "a", "v", "a", "i", "l", "a", "b", "l", "e">> ELSE repo.description,
   language     |-> IF scored.language = <<>> THEN <<"U", "n", "k", "n", "o", "w", "n">> ELSE scored.language,
   stars        |-> repo.stargazers_count,
   url          |-> repo.html_url,
   score        |-> scored.score,
   installation |-> docs.installation,
   usage        |-> docs.usage]

\* The scoring loop without the test of the star count (line 605)
RECURSIVE ScoreReposOfAnyStars(_, _, _, _)
ScoreReposOfAnyStars(repos, question, steps, search_keyword) ==
  IF repos = <<>> THEN <<>>
  ELSE LET repo   == Head(repos)
           rest   == ScoreReposOfAnyStars(Tail(repos), question, steps, search_keyword)
           scored == score_tool(repo, fetch_repository_readme(repo), question, steps,
                                search_keyword)
       IN  IF scored.score > 0
           THEN <<ToolInfo(repo, fetch_repository_readme(repo), scored)>> \o rest
           ELSE rest

\* The scoring loop (lines 603-628) over the repositories evaluated.
RECURSIVE ScoreRepos(_, _, _, _)
ScoreRepos(repos, question, steps, search_keyword) ==
  IF repos = <<>> THEN <<>>
  ELSE LET repo == Head(repos)
           rest == ScoreRepos(Tail(repos), question, steps, search_keyword)
       IN  IF repo.stargazers_count < 5 THEN rest
           ELSE LET docs   == fetch_repository_readme(repo)
                    scored == score_tool(repo, docs, question, steps, search_keyword)
                IN  IF scored.score > 0
                    THEN <<ToolInfo(repo, docs, scored)>> \o rest
                    ELSE rest

\* list.sort(key=score, reverse=True): stable, so tools of equal score keep
\* their order.
RECURSIVE InsertByScore(_, _)
InsertByScore(tool, sorted) ==
  IF sorted = <<>> THEN <<tool>>
  ELSE IF Head(sorted).score > tool.score
       THEN <<Head(sorted)>> \o InsertByScore(tool, Tail(sorted))
       ELSE <<tool>> \o sorted

RECURSIVE SortByScore(_)
SortByScore(tools) ==
  IF tools = <<>> THEN <<>>
  ELSE InsertByScore(tools[Len(tools)], SortByScore(SubSeq(tools, 1, Len(tools) - 1)))

NoneCollected == [seen_repos |-> {}, all_repos |-> <<>>]

\* find_best_tools_with_exclusion, given what the four requests answer:
\* the list returned (top_tools), with the variants issued and the
\* repositories collected on the way.
find_best_tools_with_exclusion(responses, question, steps, search_keyword, excluded_tools, max_tools) ==
  LET run == RunStrategies(responses, 1, excluded_tools, max_tools, NoneCollected, <<>>)
      all_repos == run.collected.all_repos
  IN  [top_tools |-> IF all_repos = <<>> THEN <<>>
                     ELSE Prefix(SortByScore(ScoreRepos(Prefix(all_repos, 20), question,
                                                        steps, search_keyword)),
                                 max_tools),
       issued    |-> run.issued,
       all_repos |-> all_repos]

---------------------------------------------------------------------------
(* The repository on its own: saves at any clock reading                   *)

MaxSaves == 3
MaxClock == 3

\* The code of a tool, as text
CODE_A == <<"x", " ", "=", " ", "1">>
CODE_B == <<"x", " ", "=", " ", "2">>
CODE_C == <<"i", "m", "p", "o", "r", "t", " ", "w", "x">>
CODE_D == <<"y", " ", "=", " ", "1">>
CODE_E == <<"p", "a", "s", "s">>

NoTask == [active |-> FALSE]

NoSession == [active |-> FALSE, ended |-> FALSE]

NoArtifact == [present |-> FALSE]

\* tool_output.json as written by the tool run for step k (0: before the task)
Artifact(k) == [present |-> TRUE, step |-> k]

NotReturned == [returned |-> FALSE, exception |-> "none"]

NoHistory ==
  [steps |-> <<>>, last |-> NoSession, task |-> NotReturned, synthesis |-> <<>>, ran |-> <<>>,
   consumed |-> <<>>]

\* The state of a program that is not handling a task
MainIdle ==
  /\ pc = "idle" /\ task = NoTask /\ step_index = 0 /\ results = <<>> /\ step_outputs = <<>>
  /\ session = NoSession /\ existing_tool = NoTool
  /\ stdout = "console" /\ tool_output = NoArtifact
  /\ hist = NoHistory

\* The arguments of a save: names that sanitize to the same string
\* ("wx", "w.x"; "W-x", "w_x") and names that do not, each with its own
\* description, keywords, commands and code.
SampleTools ==
  {[name |-> <<"w", "x">>,      description |-> <<"g", "e", "t">>,
    keywords |-> <<"r", "a", "i", "n">>, commands |-> <<>>, code |-> CODE_A],
   [name |-> <<"w", ".", "x">>, description |-> <<"r", "a", "i", "n">>,
    keywords |-> <<"r", "a", "i", "n", " ", "y", "t">>,
    commands |-> <<"pip install x">>, code |-> CODE_B],
   [name |-> <<"W", "-", "x">>, description |-> <<"w", "i", "n", "d">>,
    keywords |-> <<"w", "i", "n", "d">>, commands |-> <<"pip install x">>,
    code |-> CODE_C],
   [name |-> <<"w", "_", "x">>, description |-> <<"g", "e", "t">>,
    keywords |-> <<"y", "t">>, commands |-> <<>>, code |-> CODE_D],
   [name |-> <<"x">>,           description |-> <<"r", "a", "i", "n">>,
    keywords |-> <<"r", "a", "i", "n">>, commands |-> <<>>, code |-> CODE_E]}

\* What tools/ may hold when the program starts, at second 1: nothing, or
\* files left by earlier runs (a record written by save_tool_as_json at
\* second 0, a record of an older format without 'original_name', a file
\* that is not valid JSON).
OldRecord ==
  ToolData(generate_tool_id(<<"x">>, 0), <<"x">>, <<"r", "a", "i", "n">>,
           <<"r", "a", "i", "n">>, <<>>, CODE_A, 0)

LegacyRecord ==
  [id |-> <<"o", "l", "d">>, tool_description |-> <<"r", "a", "i", "n">>,
   keywords |-> <<"r", "a", "i", "n">>, install_dependencies |-> <<>>,
   python_code |-> CODE_B, created_at |-> 0]

NoFiles == [f \in {} |-> CorruptFile]

InitialRepositories ==
  {[dir |-> FALSE, files |-> NoFiles],
   [dir |-> TRUE,  files |-> NoFiles],
   [dir |-> TRUE,  files |-> WriteFile(NoFiles, OldRecord.id, JsonDump(OldRecord))],
   [dir |-> TRUE,  files |-> WriteFile(NoFiles, LegacyRecord.id, JsonDump(LegacyRecord))],
   [dir |-> TRUE,  files |-> WriteFile(NoFiles, <<"b", "a", "d">>, CorruptFile)]}

NotCalled == [called |-> FALSE]

InitRepo ==
  /\ \E r \in InitialRepositories : toolsDir = r.dir /\ files = r.files
  /\ clock = 1
  /\ saveLog = <<>>
  /\ matchCall = NotCalled
  /\ discCall = NotCalled /\ scoreCall = NotCalled
  /\ MainIdle

\* One call of save_tool_as_json (tools_managing.py:320-363).
Save(tool_name, tool_description, keywords, install_dependencies, python_code, later) ==
  /\ Len(saveLog) < MaxSaves
  /\ LET r == save_tool_as_json(files, tool_name, tool_description, keywords,
                                install_dependencies, python_code, clock, later)
     IN  /\ files' = r.files
         /\ toolsDir' = TRUE
         /\ clock' = later
         /\ saveLog' = Append(saveLog,
                [id |-> r.id, tool_name |-> tool_name,
                 tool_description |-> tool_description, keywords |-> keywords,
                 install_dependencies |-> install_dependencies,
                 python_code |-> python_code,
                 listedBefore |-> Cardinality(list_available_tools_v2(toolsDir, files))])

SaveAny ==
  \E t \in SampleTools, later \in clock..(clock + 1) :
    /\ later <= MaxClock
    /\ Save(t.name, t.description, t.keywords, t.commands, t.code, later)

\* Time passes between two calls.
Tick ==
  /\ clock < MaxClock
  /\ clock' = clock + 1
  /\ UNCHANGED <<files, toolsDir, saveLog>>

NextRepo == (SaveAny \/ Tick) /\ UNCHANGED <<matchVars, discVars, mainVars>>

SpecRepo == InitRepo /\ [][NextRepo]_vars

---------------------------------------------------------------------------
(* The matcher on its own: one call on any repository content             *)

RAIN_API == <<"r", "a", "i", "n", " ", "a", "p", "i">>

MaxQueryWords == 2

\* The words queries and keyword strings are made of: a domain anchor the
\* matcher expands, a domain term, a stop word, a word of two letters, an
\* anchor that expands to stop words, a CJK word with a keyword pattern, a
\* word of three letters.
QueryWords == <<<<"w", "e", "a", "t", "h", "e", "r">>,
               <<"r", "a", "i", "n">>,
               <<"g", "e", "t">>,
               <<"y", "t">>,
               <<"d", "o", "w", "n", "l", "o", "a", "d">>,
               <<"U5929", "U6C14">>,
               <<"a", "p", "i">>>>

\* The strictly increasing index sequences of at most n words
RECURSIVE WordChoices(_)
WordChoices(n) ==
  IF n = 0 THEN {<<>>}
  ELSE WordChoices(n - 1) \cup
       {Append(c, i) : c \in {d \in WordChoices(n - 1) : Len(d) = n - 1},
                       i \in 1..Len(QueryWords)}

QueryStrings ==
  {JoinSp([i \in 1..Len(c) |-> QueryWords[c[i]]]) :
     c \in {d \in WordChoices(MaxQueryWords) :
              \A i \in 1..(Len(d) - 1) : d[i] < d[i + 1]}}

\* Records as save_tool_as_json writes them, with any keyword string.
SavedRecord(tool_name, tool_description, keywords) ==
  ToolData(generate_tool_id(tool_name, 0), tool_name, tool_description, keywords,
           <<>>, CODE_A, 0)

\* A record of an older format, without 'original_name'.
OlderRecord(tool_id, tool_description, keywords) ==
  [id |-> tool_id, tool_description |-> tool_description, keywords |-> keywords,
   install_dependencies |-> <<>>, python_code |-> CODE_B, created_at |-> 0]

RecordsWith(keywords) ==
  {SavedRecord(<<"w", "x">>, <<>>, keywords),
   SavedRecord(<<"W", "-", "r", "a", "i", "n">>, RAIN_API, keywords),
   OlderRecord(<<"o", "l", "d">>, <<"r", "a", "i", "n">>, keywords)}

OneFile(r) == WriteFile(NoFiles, r.id, JsonDump(r))

PairRecords ==
  {SavedRecord(<<"w", "x">>, <<>>, <<"r", "a", "i", "n">>),
   SavedRecord(<<"x">>, <<>>, <<"r", "a", "i", "n">>),
   SavedRecord(<<"W", "-", "r", "a", "i", "n">>, RAIN_API, <<"a", "p", "i">>),
   OlderRecord(<<"o", "l", "d">>, <<"r", "a", "i", "n">>, <<"y", "t">>)}

\* A tool two of whose keywords contain the query keyword 'rain'
RAINFALL_RECORD ==
  SavedRecord(<<"r", "f">>, <<>>, <<"r", "a", "i", "n", " ", "r", "a", "i", "n", "f", "a", "l", "l">>)

MatchRepositories ==
  {[dir |-> FALSE, files |-> NoFiles], [dir |-> TRUE, files |-> NoFiles],
   [dir |-> TRUE, files |-> OneFile(RAINFALL_RECORD)]}
  \cup {[dir |-> TRUE, files |-> OneFile(r)] :
          r \in UNION {RecordsWith(k) : k \in QueryStrings}}
  \cup {[dir |-> TRUE, files |-> WriteFile(OneFile(r), q.id, JsonDump(q))] :
          r \in PairRecords, q \in PairRecords}
  \cup {[dir |-> TRUE, files |-> WriteFile(OneFile(r), <<"b", "a", "d">>, CorruptFile)] :
          r \in PairRecords \cup {OlderRecord(<<"b", "a", "d">>, <<>>, <<>>)}}

\* What handle_task passes as task_keywords: extract_keywords(user_input)
GET_WEATHER_CJK == <<"U83B7", "U53D6", "U5929", "U6C14">>

TaskKeywordSets == {{}, extract_keywords(RAIN_API), extract_keywords(GET_WEATHER_CJK)}

InitMatch ==
  /\ \E r \in MatchRepositories : toolsDir = r.dir /\ files = r.files
  /\ clock = 1
  /\ saveLog = <<>>
  /\ matchCall = NotCalled
  /\ discCall = NotCalled /\ scoreCall = NotCalled
  /\ MainIdle

\* One call search_tool_by_keywords(required_tool, task_keywords).
Match(required_tool, task_keywords) ==
  /\ ~matchCall.called
  /\ \E o \in search_tool_by_keywords(toolsDir, files, required_tool, task_keywords) :
       matchCall' = [called |-> TRUE, required_tool |-> required_tool,
                     task_keywords |-> task_keywords, outcome |-> o]
  /\ UNCHANGED <<repoVars, discVars, mainVars>>

NextMatch == \E q \in QueryStrings, t \in TaskKeywordSets : Match(q, t)

SpecMatch == InitMatch /\ [][NextMatch]_vars

---------------------------------------------------------------------------
(* Discovery and scoring on their own: one call on any answers             *)

FoundDocs(installation, usage) == [installation |-> installation, usage |-> usage]

NoDocs == FoundDocs(InstallationNotFound, UsageNotFound)

\* One repository of a GitHub search result, with the documentation the
\* README fetch extracts for it.
Repo(id, name, language, stars, description, updated_at, docs) ==
  [id |-> id, name |-> name, language |-> language, stargazers_count |-> stars,
   description |-> description, updated_at |-> updated_at,
   html_url |-> <<"h", "/">> \o <<ToString(id)>> \o name, docs |-> docs]

WX_REPO   == Repo(1, <<"w", "x">>, <<"P", "y", "t", "h", "o", "n">>, 6000, <<"r", "a", "i", "n", " ", "a", "p", "i">>, DateAged(10),
                  FoundDocs(<<"p", "i", "p", " ", "i", "n", "s", "t", "a", "l", "l", " ", "w", "x">>, <<"i", "m", "p", "o", "r", "t", " ", "w", "x">>))
RAIN_REPO == Repo(2, <<"r", "a", "i", "n">>, <<"p", "y", "t", "h", "o", "n">>, 50, NoValue, NoDate, NoDocs)
WX_FORK   == Repo(3, <<"w", "x">>, <<"P", "y", "t", "h", "o", "n">>, 7, <<>>, DateAged(400), NoDocs)
JS_REPO   == Repo(4, <<"j", "s">>, <<"J", "a", "v", "a", "S", "c", "r", "i", "p", "t">>, 9000, <<"r", "a", "i", "n", " ", "a", "p", "i", " ", "c", "l", "i", "e", "n", "t">>, DateAged(1),
                  FoundDocs(<<"p", "i", "p", " ", "i", "n", "s", "t", "a", "l", "l", " ", "j", "s">>, <<"o", "f", "f", "i", "c", "i", "a", "l", " ", "a", "p", "i", " ", "t", "o", "k", "e", "n", " ", "e", "x", "a", "m", "p", "l", "e">>))
NULL_LANG == Repo(5, <<"n", "l">>, NoValue, 300, <<"r", "a", "i", "n">>, DateAged(40),
                  FoundDocs(<<"p", "i", "p", " ", "i", "n", "s", "t", "a", "l", "l", " ", "n", "l">>, UsageNotFound))
FEW_STARS == Repo(6, <<"t", "i", "n", "y">>, <<"P", "y", "t", "h", "o", "n">>, 3, <<"r", "a", "i", "n", " ", "a", "p", "i">>, DateAged(1),
                  FoundDocs(<<"p", "i", "p", " ", "i", "n", "s", "t", "a", "l", "l", " ", "t", "i", "n", "y">>, <<"i", "m", "p", "o", "r", "t", " ", "t", "i", "n", "y">>))
YT_REPO   == Repo(7, <<"y", "t">>, <<"P", "Y", "T", "H", "O", "N">>, 100, <<"d", "o", "w", "n", "l", "o", "a", "d">>, MalformedDate, NoDocs)
SKY_REPO  == Repo(8, <<"s", "k", "y">>, <<"P", "y", "t", "h", "o", "n">>, 5, <<"s", "k", "y">>, DateAged(100), NoDocs)
FX_REPO   == Repo(9, <<"f", "x">>, <<"P", "y", "t", "h", "o", "n">>, 5000, NoValue, DateAged(200),
                  FoundDocs(InstallationNotFound, <<"l", "i", "v", "e", " ", "t", "o", "k", "e", "n">>))
API_REPO  == Repo(10, <<"a", "p", "i">>, <<"P", "y", "t", "h", "o", "n">>, 40, <<"r", "e", "s", "t", " ", "a", "p", "i", " ", "s", "d", "k">>, DateAged(-1), NoDocs)
NO_ID     == Repo(0, <<"g", "h", "o", "s", "t">>, <<"P", "y", "t", "h", "o", "n">>, 900, <<"r", "a", "i", "n">>, DateAged(1), NoDocs)
EMPTY_LANG == Repo(11, <<"e", "l">>, <<>>, 70, <<"r", "a", "i", "n">>, DateAged(1),
                   FoundDocs(<<"p", "i", "p", " ", "i", "n", "s", "t", "a", "l", "l", " ", "e", "l">>, <<"i", "m", "p", "o", "r", "t", " ", "e", "l">>))

SampleRepos == {WX_REPO, RAIN_REPO, WX_FORK, JS_REPO, NULL_LANG, FEW_STARS, YT_REPO,
                SKY_REPO, FX_REPO, API_REPO, NO_ID, EMPTY_LANG}

\* The repositories each search variant finds when it answers.
StrategyItems ==
  <<<<WX_REPO, JS_REPO, RAIN_REPO, NULL_LANG, FEW_STARS>>,
    <<JS_REPO, WX_FORK, YT_REPO, SKY_REPO, NO_ID, EMPTY_LANG, WX_REPO>>,
    <<FX_REPO, API_REPO, RAIN_REPO, YT_REPO>>,
    <<API_REPO, WX_FORK>>>>

\* What search variant i may answer.
StrategyAnswers(i) ==
  {Response(200, "absent", StrategyItems[i]),
   Response(500, "absent", <<>>),
   Response(403, "0", <<>>),
   RequestException}

MaxExcluded == 1

ExcludedNames == {<<"w", "x">>, <<"j", "s">>, <<"r", "a", "i", "n">>}

ExcludedSets == {e \in SUBSET ExcludedNames : Cardinality(e) <= MaxExcluded}

GET_THE_RAIN_API == <<"g", "e", "t", " ", "t", "h", "e", " ", "r", "a", "i", "n", " ", "a", "p", "i">>

SampleSteps == {<<>>, <<<<"G", "e", "t", " ", "r", "a", "i", "n">>>>, <<<<"g", "e", "t", " ", "t", "h", "e", " ", "r", "a", "i", "n", " ", "a", "p", "i">>, <<"s", "h", "o", "w", " ", "i", "t">>>>}

SampleKeywords == {<<"R", "a", "i", "n", " ", "A", "P", "I">>, <<"r", "a", "i", "n", " ", "r", "a", "i", "n">>, <<>>}

\* The star counts a candidate is scored with: its own, or one around the
\* threshold of line 605 or the threshold max_stars.
SampleStars == {0, 1, 4, 5, 4999, 5000, 5001, 100000}

OwnStars == {-1}

DiscIdle == discCall = NotCalled /\ scoreCall = NotCalled

InitDisc ==
  /\ toolsDir = FALSE /\ files = NoFiles /\ clock = 1 /\ saveLog = <<>>
  /\ matchCall = NotCalled
  /\ DiscIdle
  /\ MainIdle

\* One call of find_best_tools_with_exclusion.
Discover(responses, steps, search_keyword, excluded_tools, max_tools) ==
  /\ ~discCall.called /\ ~scoreCall.called
  /\ discCall' = [called |-> TRUE, responses |-> responses,
                  excluded_tools |-> excluded_tools, max_tools |-> max_tools,
                  result |-> find_best_tools_with_exclusion(responses, <<>>, steps,
                                search_keyword, excluded_tools, max_tools)]
  /\ UNCHANGED <<repoVars, matchVars, scoreCall, mainVars>>

\* One call of score_tool.
Score(repo, steps, search_keyword) ==
  /\ ~discCall.called /\ ~scoreCall.called
  /\ scoreCall' = [called |-> TRUE, repo |-> repo, steps |-> steps,
                   search_keyword |-> search_keyword,
                   result |-> score_tool(repo, fetch_repository_readme(repo), <<>>,
                                         steps, search_keyword)]
  /\ UNCHANGED <<repoVars, matchVars, discCall, mainVars>>

NextDisc ==
  \/ \E a1 \in StrategyAnswers(1), a2 \in StrategyAnswers(2), a3 \in StrategyAnswers(3),
        a4 \in StrategyAnswers(4), excluded_tools \in ExcludedSets, max_tools \in {1, 3} :
       Discover(<<a1, a2, a3, a4>>, <<GET_THE_RAIN_API>>, RAIN_API, excluded_tools, max_tools)
  \/ \E repo \in SampleRepos, stars \in OwnStars \cup SampleStars, steps \in SampleSteps,
        search_keyword \in SampleKeywords :
       Score([repo EXCEPT !.stargazers_count = IF stars \in OwnStars THEN @ ELSE stars],
             steps, search_keyword)

SpecDisc == InitDisc /\ [][NextDisc]_vars

---------------------------------------------------------------------------
(* manager.py: one task, from handle_task to its return                    *)

\* One attempt more than line 267 allows
four_search_attempts == 3 + 1

\* manager.py:267
max_search_attempts == 3

\* manager.py:283: max_tools=3
session_max_tools == 3

\* What the program returns or records as the result of a step
TaskError         == "An error occurred"
DirectResponse    == "direct response"
FinalAnswer       == "final answer"
StepCompleted     == "Step completed"
NoSuitableTools   == "Could not find any suitable tools for this task."
Cancelled         == "Tool installation cancelled."
AttemptsExhausted == "Maximum search attempts reached. Could not find a suitable tool."
SessionError      == "Error creating/executing tool"
InstallFailed     == "Failed to install dependencies"
NoValidCode       == "Failed to generate valid code."
InstallerError    == "Error"
NewToolFailed     == "Failed to execute new tool"
NewToolExecuted   == "New tool created and executed successfully. Output captured."
ToolFailed        == "Failed to execute tool"
ToolExecuted      == "Tool executed successfully."
ToolError         == "Error executing tool"

\* The steps an analysis may hold: with a tool, without a tool, and
\* without 'requires_tool'.
TOOL_STEP    == [description |-> GET_THE_RAIN_API, requires_tool |-> TRUE,
                 tool_type |-> RAIN_API]
PLAIN_STEP   == [description |-> <<"s", "h", "o", "w", " ", "i", "t">>, requires_tool |-> FALSE]
BROKEN_STEP  == [description |-> <<"s", "h", "o", "w">>]

\* What analyze_task may give for a request: json.loads of the answer of
\* the model, or an exception (no answer, or an answer that is not JSON).
Analysis(steps) ==
  ModelText([needs_external_tool |-> TRUE, steps |-> steps, main_required_tool |-> RAIN_API,
             tool_general_description |-> <<"r", "a", "i", "n">>])

SampleAnalyses ==
  {ModelFailure,
   ModelText([needs_external_tool |-> TRUE]),
   ModelText([steps |-> <<>>]),
   Analysis(<<PLAIN_STEP, TOOL_STEP>>),
   Analysis(<<PLAIN_STEP, BROKEN_STEP>>)}

\* What tools/ may hold when a task starts, at second 1: nothing; a tool
\* saved earlier that the request matches, with and without install
\* commands; a record of an older format; a tool of another kind saved in
\* this very second under the name of a candidate.
RAIN_TOOL ==
  ToolData(generate_tool_id(<<"r", "a", "i", "n">>, 0), <<"r", "a", "i", "n">>, RAIN_API, RAIN_API,
           <<<<"p", "i", "p", " ", "i", "n", "s", "t", "a", "l", "l", " ", "r", "a", "i", "n">>>>, CODE_A, 0)

WIND_TOOL ==
  ToolData(generate_tool_id(<<"w", "x">>, 1), <<"w", "x">>, <<"w", "i", "n", "d">>, <<"w", "i", "n", "d">>, <<>>, CODE_C, 1)

TaskRepositories ==
  {[dir |-> FALSE, files |-> NoFiles],
   [dir |-> TRUE,  files |-> WriteFile(NoFiles, RAIN_TOOL.id, JsonDump(RAIN_TOOL))],
   [dir |-> TRUE,  files |-> WriteFile(NoFiles, OldRecord.id, JsonDump(OldRecord))],
   [dir |-> TRUE,  files |-> WriteFile(NoFiles, LegacyRecord.id, JsonDump(LegacyRecord))],
   [dir |-> TRUE,  files |-> WriteFile(NoFiles, WIND_TOOL.id, JsonDump(WIND_TOOL))]}

\* What the four search variants find during a session, and what a search
\* may be answered: all variants answer; only the third does; none does.
SessionItems ==
  <<<<WX_REPO, JS_REPO, RAIN_REPO>>, <<WX_FORK, YT_REPO, FEW_STARS>>,
    <<FX_REPO, NO_ID>>, <<API_REPO, SKY_REPO, RAIN_REPO>>>>

Found(k) == Response(200, "absent", SessionItems[k])

SessionAnswers ==
  {<<Found(1), Found(2), Found(3), Found(4)>>,
   <<RequestException, Response(500, "absent", <<>>), Found(3), Response(403, "0", <<>>)>>,
   <<RequestException, RequestException, RequestException, RequestException>>}

\* What generate_install_commands may give for a candidate: a list of
\* strings taken from the answer of the model or from the guide, or a JSON
\* array that holds something else than strings.
NotStrings == [strings |-> FALSE]

Commands(list) == [strings |-> TRUE, list |-> list]

InstallCommandLists ==
  {Commands(<<>>),
   Commands(<<<<"$", " ", "p", "i", "p", " ", "i", "n", "s", "t", "a", "l", "l", " ", "w", "x", " ", " ", "#", " ", "l", "a", "t", "e", "s", "t">>, <<"g", "i", "t", " ", "c", "l", "o", "n", "e", " ", "w", "x">>, <<"p", "i", "p", " ", "i", "n", "s", "t", "a", "l", "l", " ", "w", "x", " ", "|", " ", "s", "h">>, <<"n", "p", "m", " ", "i", " ", "w", "x">>>>),
   NotStrings}

\* What the model may answer when asked for the code and the description
CodeResponses ==
  {ModelFailure, ModelText(<<" ", " ">>), ModelText(<<"BACKTICK", "BACKTICK", "BACKTICK">> \o <<"p", "y", "\n">> \o <<"i", "m", "p", "o", "r", "t", " ", "w", "x", ";">> \o <<"\t", "\n">> \o <<"BACKTICK", "BACKTICK", "BACKTICK">>)}

DescriptionResponses == {ModelFailure, ModelText(<<" ">> \o RAIN_API \o <<"\n">>)}

\* What the user may type at the prompts
Choices == {<<"c">>, <<"S">>, <<"1">>, <<"2">>, <<"3">>, <<"0">>, <<"x">>}

Approvals == {<<"Y">>, <<"n">>}

InitMain ==
  /\ \E r \in TaskRepositories : toolsDir = r.dir /\ files = r.files
  /\ clock = 1 /\ saveLog = <<>>
  /\ matchCall = NotCalled /\ DiscIdle
  /\ pc = "idle" /\ task = NoTask /\ step_index = 0 /\ results = <<>> /\ step_outputs = <<>>
  /\ session = NoSession /\ existing_tool = NoTool
  /\ stdout = "console" /\ tool_output \in {NoArtifact, Artifact(0)}
  /\ hist = NoHistory

\* The names of a list of candidates
Names(tool_options) == {tool_options[k].name : k \in 1..Len(tool_options)}

\* return of handle_task (also from its except clause, line 154)
Return(value, h) ==
  /\ pc' = "done"
  /\ hist' = [h EXCEPT !.task = [returned |-> TRUE, value |-> value, exception |-> "none"]]

\* An exception that leaves handle_task
Propagated(exception) == [returned |-> FALSE, exception |-> exception]

\* except Exception as e: return "An error occurred: ..." (lines 154-156)
Caught(exception) == [returned |-> TRUE, value |-> TaskError, exception |-> exception]

\* An exception raised in the try block of handle_task (lines 53-152)
Raise(exception, h) ==
  /\ pc' = "done"
  /\ hist' = [h EXCEPT !.task = Caught(exception)]

\* The history entry of a step
StepEntry(matcher, file) ==
  [step |-> step_index, matcher |-> matcher, file |-> file, existing |-> FALSE,
   acquisition |-> FALSE,
   searches |-> 0, executed |-> FALSE]

NoFile == <<"None">>

\* results.append(result) and the next turn of the loop of line 84
NextStep(result) ==
  /\ results' = Append(results, result)
  /\ step_outputs' = Append(step_outputs, step_index)
  /\ step_index' = step_index + 1
  /\ pc' = "step"

\* handle_task up to the loop over the steps (lines 53-81)
HandleTask(user_input, analysis) ==
  /\ pc = "idle"
  /\ IF analysis.failed \/ "steps" \notin DOMAIN analysis.text
     THEN /\ Raise(IF analysis.failed THEN "analyze_task" ELSE "steps", hist)
          /\ UNCHANGED <<task, step_index, results, step_outputs>>
     ELSE IF ~Get(analysis.text, "needs_external_tool", FALSE)
     THEN /\ \E response \in {ModelFailure, ModelText(DirectResponse)} :
               IF response.failed THEN Raise("direct response", hist)
               ELSE Return(response.text, hist)
          /\ UNCHANGED <<task, step_index, results, step_outputs>>
     ELSE /\ task' = [active |-> TRUE, user_input |-> user_input,
                      steps |-> analysis.text.steps,
                      main_required_tool |->
                        Get(analysis.text, "main_required_tool", <<"n", "o", "_", "e", "x", "t", "r", "a", "_", "t", "o", "o", "l", "s", "_", "n", "e", "e", "d", "e", "d">>),
                      tool_general_description |->
                        Get(analysis.text, "tool_general_description", <<>>)]
          /\ step_index' = 1 /\ results' = <<>> /\ step_outputs' = <<>> /\ pc' = "step"
          /\ UNCHANGED hist
  /\ UNCHANGED <<repoVars, matchVars, discVars, session, existing_tool, stdout, tool_output>>

\* What the history keeps of _install_and_execute_tool_v2: whether it was
\* called, what the collaborators it asked gave, and the save it made.
NotInstalled == [approved |-> FALSE]

Installed(tool_info, installed, code, described, tool_id, fs) ==
  [approved |-> TRUE, tool_info |-> tool_info, installed |-> installed, code |-> code,
   described |-> described, id |-> tool_id, loaded |-> load_tool_by_id(fs, tool_id)]

\* What the history keeps of a session that returned
Ended(s, result, dir, fs, install, log) ==
  [active |-> FALSE, ended |-> TRUE, result |-> result,
   searches |-> s.searches, declines |-> s.declines, again |-> s.current_attempt,
   answer |-> s.answer, install_cmds |-> s.install_cmds,
   excluded |-> s.excluded, tried_tools |-> s.tried_tools,
   listed_before |-> s.listed_before,
   listed_after |-> list_available_tools_v2(dir, fs),
   saves |-> Len(log) - s.saved_before,
   install |-> install]

\* return of _create_and_execute_new_tool_v2 with the repository as it is,
\* and results.append(result) (line 119)
EndSession(s, result, h) ==
  /\ session' = NoSession
  /\ hist' = [h EXCEPT !.last = Ended(s, result, toolsDir, files, NotInstalled, saveLog)]
  /\ NextStep(result)

\* return of _install_and_execute_tool_v2 before the save
EndInstall(s, result, install, h) ==
  /\ session' = NoSession
  /\ hist' = [h EXCEPT !.last = Ended(s, result, toolsDir, files, install, saveLog)]
  /\ NextStep(result)

\* The loop over the install commands that goes on after a command failed
CommandsRunToTheEnd(cmds, failing, approval) ==
  [k \in 1..Len(cmds) |->
     [command |-> cmds[k], success |-> k # failing, approval |-> approval]]

\* The calls of install_dependencies made by the loop over the install
\* commands (lines 193-198, 361-366) when command number `failing` fails (0:
\* none does): the commands in order, up to the first that fails, each with
\* the answer to the prompt before the loop.
CommandsRun(cmds, failing, approval) ==
  [k \in 1..(IF failing = 0 THEN Len(cmds) ELSE failing) |->
     [command |-> cmds[k], success |-> k # failing, approval |-> approval]]

\* The while loop of line 270 from its head to the prompt of line 301, with
\* the session as s: the search, and the candidates shown.
Loop(s, h) ==
  IF s.current_attempt >= max_search_attempts
  THEN EndSession(s, AttemptsExhausted, h)
  ELSE \E responses \in SessionAnswers :
       \E tool_options \in
            {find_best_tools_with_exclusion(responses, task.user_input, s.steps,
                 s.required_tool, s.tried_tools, session_max_tools).top_tools} :
         LET searched == [s EXCEPT !.tool_options = tool_options,
                                   !.excluded = s.tried_tools,
                                   !.searches = @ + 1,
                                   !.shown = @ \cup Names(tool_options),
                                   !.shown_in_round = @ \cup Names(tool_options),
                                   !.invalid = 0]
             counted == [h EXCEPT !.steps[step_index].searches = @ + 1]
         IN  IF tool_options = <<>>
             THEN EndSession(searched, NoSuitableTools, counted)
             ELSE /\ session' = searched
                  /\ hist' = counted
                  /\ pc' = "choose"
                  /\ UNCHANGED <<results, step_outputs, step_index>>

\* The session _create_and_execute_new_tool_v2 starts with (lines 266-268)
NewSession(steps, required_tool) ==
  [active |-> TRUE, steps |-> steps, required_tool |-> required_tool,
   tried_tools |-> {}, current_attempt |-> 0, tool_options |-> <<>>,
   tool_index |-> 0, install_cmds |-> <<>>,
   excluded |-> {}, searches |-> 0, declines |-> 0, answer |-> NoValue,
   shown |-> {}, shown_before_again |-> {}, shown_in_round |-> {}, invalid |-> 0,
   listed_before |-> list_available_tools_v2(toolsDir, files),
   saved_before |-> Len(saveLog)]

\* The negation of line 107
Falsy(outcome) == outcome.kind # "tool"

\* `if existing_tool:` (line 107)
Truthy(outcome) == outcome.kind = "tool"

\* What running the code of a tool for step k may leave of tool_output.json
ArtifactsAfter(before, k) == {before, Artifact(k)}

\* _execute_existing_tool_v2 from line 201 on: the artifact is removed, the
\* code is run, the result is appended.
RunExisting(tool_data, h) ==
  IF "python_code" \notin DOMAIN tool_data
  THEN /\ tool_output' = NoArtifact
       /\ hist' = h
       /\ NextStep(ToolError)
  ELSE \E success \in BOOLEAN, artifact \in ArtifactsAfter(NoArtifact, step_index) :
         /\ tool_output' = artifact
         /\ hist' = [h EXCEPT !.steps[step_index].executed = TRUE]
         /\ NextStep(IF success THEN ToolExecuted ELSE ToolFailed)

\* One turn of the loop of line 84 for step step_index, up to the first
\* prompt or to the end of the step.
BeginStep ==
  /\ pc = "step" /\ step_index <= Len(task.steps)
  /\ LET step == task.steps[step_index]
         tool_type == Get(step, "tool_type", task.main_required_tool)
         task_keywords == extract_keywords(task.user_input)
     IN  IF "requires_tool" \notin DOMAIN step
         THEN \* KeyError at line 93, with sys.stdout redirected at line 91
              /\ stdout' = "captured"
              /\ Raise("requires_tool", hist)
              /\ UNCHANGED <<results, step_outputs, step_index, session, existing_tool, tool_output>>
         ELSE IF ~step.requires_tool
         THEN /\ NextStep(StepCompleted)
              /\ hist' = [hist EXCEPT !.steps = Append(@, StepEntry("not consulted", NoFile))]
              /\ UNCHANGED <<stdout, session, existing_tool, tool_output>>
         ELSE \E outcome \in search_tool_by_keywords(toolsDir, files, tool_type, task_keywords) :
                IF outcome.kind = "raise"
                THEN /\ stdout' = "captured"
                     /\ Raise("search_tool_by_keywords",
                          [hist EXCEPT !.steps = Append(@, StepEntry("raise", NoFile))])
                     /\ UNCHANGED <<results, step_outputs, step_index, session, existing_tool, tool_output>>
                ELSE IF Truthy(outcome)
                THEN LET h == [hist EXCEPT !.steps =
                                 Append(@, [StepEntry(outcome.kind, Get(outcome, "file", NoFile))
                                            EXCEPT !.existing = TRUE])]
                     IN  IF outcome.kind # "tool" \/ "id" \notin DOMAIN outcome.data
                         THEN \* tool_data['id'] raises inside the try of line 175
                              /\ hist' = h /\ NextStep(ToolError)
                              /\ UNCHANGED <<stdout, session, existing_tool, tool_output>>
                         ELSE IF Get(outcome.data, "install_dependencies", <<>>) # <<>>
                         THEN /\ existing_tool' = outcome
                              /\ pc' = "deps" /\ hist' = h
                              /\ UNCHANGED <<results, step_outputs, step_index, stdout, session, tool_output>>
                         ELSE /\ RunExisting(outcome.data, h)
                              /\ UNCHANGED <<stdout, session, existing_tool>>
                ELSE /\ Loop(NewSession(<<step.description>>, tool_type),
                             [hist EXCEPT !.steps =
                                Append(@, [StepEntry(outcome.kind, Get(outcome, "file", NoFile))
                                           EXCEPT !.acquisition = TRUE])])
                     /\ UNCHANGED <<stdout, existing_tool, tool_output>>
  /\ UNCHANGED <<repoVars, matchVars, discVars, task>>

\* `if approval:`
ApprovedUnlessEmpty(approval) == approval # <<>>

\* approval.lower() == 'y' (lines 189, 331)
Approved(approval) == Lower(approval) = <<"y">>

\* The answer to "Install dependencies? (y/n)" (line 188) and the rest of
\* _execute_existing_tool_v2.
InstallDependencies(approval) ==
  /\ pc = "deps"
  /\ IF ~Approved(approval)
     THEN RunExisting(existing_tool.data, hist)
     ELSE \E failing \in 0..Len(existing_tool.data.install_dependencies) :
            LET run == [hist EXCEPT !.ran = @ \o CommandsRun(
                                      existing_tool.data.install_dependencies, failing, approval)]
            IN  IF failing # 0
                THEN /\ NextStep(InstallFailed)
                     /\ hist' = run
                     /\ UNCHANGED tool_output
                ELSE RunExisting(existing_tool.data, run)
  /\ existing_tool' = NoTool
  /\ UNCHANGED <<repoVars, matchVars, discVars, task, session, stdout>>

\* An int(choice) that raises ValueError for every choice
DigitUnread(c) == IF c = "0" THEN 0 ELSE 0

\* int(choice) - 1 for the choices of one character (0 stands for ValueError)
Digit(c) == IF c = "1" THEN 1 ELSE IF c = "2" THEN 2 ELSE IF c = "3" THEN 3
            ELSE IF c = "4" THEN 4 ELSE IF c = "5" THEN 5 ELSE IF c = "6" THEN 6
            ELSE IF c = "7" THEN 7 ELSE IF c = "8" THEN 8 ELSE IF c = "9" THEN 9 ELSE 0

\* What the session keeps of the invalid answers to the list it shows:
\* whether their number is even (0) or odd (1)
Reprompted(invalid) == 1 - invalid

\* The answer to "Select a tool" (line 301): cancel, search again, a
\* candidate, or anything else, which is asked again.
Choose(choice) ==
  /\ pc = "choose"
  /\ IF Lower(choice) = <<"c">>
     THEN EndSession(session, Cancelled, hist)
     ELSE IF Lower(choice) = <<"s">>
     THEN Loop([session EXCEPT !.tried_tools = @ \cup Names(session.tool_options),
                               !.current_attempt = @ + 1,
                               !.shown_before_again = session.shown,
                               !.shown_in_round = {}],
               hist)
     ELSE IF Len(choice) = 1 /\ Digit(choice[1]) \in 1..Len(session.tool_options)
     THEN \E commands \in InstallCommandLists :
            IF ~commands.strings
            THEN \* cmd.strip() raises inside the try of line 264
                 EndSession(session, SessionError, hist)
            ELSE /\ session' = [session EXCEPT
                                  !.tool_index = Digit(choice[1]),
                                  !.install_cmds = clean_and_validate_commands(commands.list)]
                 /\ pc' = "approve"
                 /\ UNCHANGED <<results, step_outputs, step_index, hist>>
     ELSE \* "Invalid selection" or "Invalid input" (lines 344, 346), and the
          \* prompt of line 301 again
          /\ session' = [session EXCEPT !.invalid = Reprompted(@)]
          /\ UNCHANGED <<pc, results, step_outputs, step_index, hist>>
  /\ UNCHANGED <<repoVars, matchVars, discVars, task, existing_tool, stdout, tool_output>>

\* `if len(code) < 20:`
ShortCode(code) == Len(code) < 20

\* `if not code:` (line 389)
NoCode(code) == code = <<>>

\* A declined approval that counts as a search again: every candidate shown
\* is excluded and the attempt is used up
DeclinedAsSearchAgain(s, tool_info) ==
  [s EXCEPT !.tried_tools = @ \cup Names(s.tool_options),
            !.current_attempt = @ + 1,
            !.declines = @ + 1]

\* tried_tools.add(tool_info['name']) and break (lines 331-335)
Declined(s, tool_info) ==
  [s EXCEPT !.tried_tools = @ \cup {tool_info.name}, !.declines = @ + 1]

\* The answer to "Proceed with installation and tool creation? (y/n)" (line
\* 329): a refusal excludes the candidate and searches again; an approval
\* runs _install_and_execute_tool_v2 (lines 354-466).
Approve(approval) ==
  /\ pc = "approve"
  /\ LET tool_info == session.tool_options[session.tool_index]
         asked == [session EXCEPT !.answer = approval]
     IN  IF ~Approved(approval)
         THEN /\ Loop(Declined(session, tool_info), hist)
              /\ UNCHANGED <<repoVars, tool_output>>
         ELSE \E failing \in 0..Len(session.install_cmds), response \in CodeResponses :
                \E code \in {clean_and_validate_code(generate_code(response))},
                   run \in {[hist EXCEPT !.ran = @ \o CommandsRun(session.install_cmds, failing, approval)]} :
                    IF failing # 0
                    THEN /\ EndInstall(asked, InstallFailed,
                              Installed(tool_info, FALSE, <<>>, "not asked", NoValue, files), run)
                         /\ UNCHANGED <<repoVars, tool_output>>
                    ELSE IF NoCode(code)
                    THEN /\ EndInstall(asked, NoValidCode,
                              Installed(tool_info, TRUE, code, "not asked", NoValue, files), run)
                         /\ UNCHANGED <<repoVars, tool_output>>
                    ELSE \E answer \in DescriptionResponses :
                           IF answer.failed
                           THEN /\ EndInstall(asked, InstallerError,
                                     Installed(tool_info, TRUE, code, "failed", NoValue, files), run)
                                /\ UNCHANGED <<repoVars, tool_output>>
                           ELSE \E description \in {generate_code_description_v2(answer)} :
                                \E keywords \in {generate_tool_keywords(tool_info.name,
                                                    description, session.required_tool, code)} :
                                  \E later \in clock..Min(clock + 1, MaxClock),
                                     success \in BOOLEAN,
                                     artifact \in ArtifactsAfter(tool_output, step_index) :
                                    LET saved == save_tool_as_json(files, tool_info.name,
                                                   description, keywords, session.install_cmds,
                                                   code, clock, later)
                                        result == IF success THEN NewToolExecuted ELSE NewToolFailed
                                    IN  /\ files' = saved.files
                                        /\ toolsDir' = TRUE
                                        /\ clock' = later
                                        /\ saveLog' = Append(saveLog,
                                             [id |-> saved.id, tool_name |-> tool_info.name,
                                              tool_description |-> description,
                                              keywords |-> keywords,
                                              install_dependencies |-> session.install_cmds,
                                              python_code |-> code,
                                              listedBefore |->
                                                Cardinality(list_available_tools_v2(toolsDir, files))])
                                        /\ tool_output' = artifact
                                        /\ session' = NoSession
                                        /\ hist' = [run EXCEPT !.last =
                                             Ended(asked, result, TRUE, saved.files,
                                               Installed(tool_info, TRUE, code, "done",
                                                         saved.id, saved.files),
                                               saveLog')]
                                        /\ NextStep(result)
  /\ UNCHANGED <<matchVars, discVars, task, existing_tool, stdout>>

\* After the last step: the final answer, for which _generate_final_answer
\* reads tool_output.json if it exists (lines 471-479), and the removal of
\* the artifact (lines 141-152); get_model_response may raise, which line
\* 154 catches.
FinishTask ==
  /\ pc = "step" /\ step_index > Len(task.steps)
  /\ \E response \in {ModelFailure, ModelText(FinalAnswer)} :
       LET asked == [hist EXCEPT !.synthesis = Append(@, results),
                                 !.consumed = Append(@, tool_output)]
       IN  IF response.failed
           THEN /\ Raise("final answer", asked)
                /\ UNCHANGED tool_output
           ELSE /\ Return(response.text, asked)
                /\ tool_output' = NoArtifact
  /\ UNCHANGED <<repoVars, matchVars, discVars, task, step_index, results, step_outputs, session,
                 existing_tool, stdout>>

Next ==
  \/ \E analysis \in SampleAnalyses : HandleTask(GET_THE_RAIN_API, analysis)
  \/ BeginStep
  \/ \E approval \in Approvals : InstallDependencies(approval)
  \/ \E choice \in Choices : Choose(choice)
  \/ \E approval \in Approvals : Approve(approval)
  \/ FinishTask

Spec == InitMain /\ [][Next]_vars

\* The task with its progress: handle_task runs statement after statement,
\* and input() (lines 301, 329) returns whenever the user answers, which the
\* user keeps doing. It starts with tools/ missing, where every step that
\* needs a tool opens a session, or holding a tool the request matches.
InitLive ==
  /\ InitMain
  /\ toolsDir => files = WriteFile(NoFiles, RAIN_TOOL.id, JsonDump(RAIN_TOOL))
  /\ tool_output = NoArtifact

SpecLive == InitLive /\ [][Next]_vars /\ WF_vars(Next)

---------------------------------------------------------------------------
(* Properties of the repository (SpecRepo)                                 *)

LastSave == saveLog[Len(saveLog)]

Listed == list_available_tools_v2(toolsDir, files)

\* C6: after save_tool_as_json returns an id, load_tool_by_id(id) gives a
\* record whose original_name, tool_description, keywords,
\* install_dependencies and python_code are the arguments of that save, and
\* list_available_tools_v2() holds exactly one entry with that id.
C6_SaveLoadRoundTrip ==
  saveLog # <<>> =>
    LET r == load_tool_by_id(files, LastSave.id)
    IN  /\ r.found
        /\ r.data.original_name = LastSave.tool_name
        /\ r.data.tool_description = LastSave.tool_description
        /\ r.data.keywords = LastSave.keywords
        /\ r.data.install_dependencies = LastSave.install_dependencies
        /\ r.data.python_code = LastSave.python_code
        /\ Cardinality({e \in Listed : e.id = LastSave.id}) = 1

\* The round trip of a save that rewrote the file of an earlier save.
C6_Witness ==
  /\ Len(saveLog) >= 2
  /\ saveLog[1].id = LastSave.id
  /\ saveLog[1].python_code # LastSave.python_code
  /\ load_tool_by_id(files, LastSave.id).found
  /\ load_tool_by_id(files, LastSave.id).data.python_code = LastSave.python_code

\* C7: every save returns an id that no earlier save returned, so no save
\* overwrites the record of an earlier one: every saved tool stays loadable
\* under the id its save returned, with its own fields.
C7_SavedToolsStayLoadable ==
  \A i \in 1..Len(saveLog) :
    LET r == load_tool_by_id(files, saveLog[i].id)
    IN  /\ r.found
        /\ r.data.original_name = saveLog[i].tool_name
        /\ r.data.tool_description = saveLog[i].tool_description
        /\ r.data.keywords = saveLog[i].keywords
        /\ r.data.install_dependencies = saveLog[i].install_dependencies
        /\ r.data.python_code = saveLog[i].python_code

---------------------------------------------------------------------------
(* Properties of the matcher (SpecMatch)                                   *)

Outcome == matchCall.outcome

ReadableFiles == {f \in DOMAIN files : JsonLoad(files[f]).ok}

QueryExpanded == ExpandedKeywords(matchCall.required_tool, matchCall.task_keywords)

\* C3: search_tool_by_keywords returns None or a tool whose match_score is
\* at least 0.2; it returns None when tools/ is absent or empty and when
\* every stored tool scores below 0.2; it never raises.
C3_MatchAboveThresholdOrNone ==
  matchCall.called =>
    /\ Outcome.kind # "raise"
    /\ Outcome.kind = "tool" => PassesThreshold(Outcome.match_score)
    /\ (~toolsDir \/ DOMAIN files = {}) => Outcome.kind = "none"
    /\ (\A f \in ReadableFiles :
          ~PassesThreshold(total_score(files[f].data, QueryExpanded,
                                       matchCall.required_tool)))
         => Outcome.kind = "none"

\* The keyword sets extract_keywords returned for the call of the matcher:
\* that of the request (manager.py line 98) and that of the required tool
ExtractedKeywords ==
  matchCall.task_keywords \cup extract_keywords(matchCall.required_tool)

\* C15: a set returned by extract_keywords holds no stop word and no token
\* of Latin letters shorter than 3 characters, the tokens added for CJK
\* patterns and domain terms included.
C15_NoStopWordsNoShortTokens ==
  matchCall.called =>
    \A k \in ExtractedKeywords :
      /\ k \notin all_stop_words
      /\ (k # <<>> /\ Range(k) \subseteq Letters) => Len(k) >= 3

\* The query is the exact keyword string of the only stored record.
ExactKeywordQuery ==
  /\ matchCall.called
  /\ matchCall.task_keywords = {}
  /\ toolsDir
  /\ Cardinality(DOMAIN files) = 1
  /\ \A f \in DOMAIN files :
       /\ JsonLoad(files[f]).ok
       /\ files[f].data.keywords = matchCall.required_tool

---------------------------------------------------------------------------
(* Properties of scoring and discovery (SpecDisc)                          *)

\* The repositories the answers of a discovery call held
AnsweredRepos ==
  UNION {Range(discCall.responses[k].items) :
           k \in {n \in 1..4 : discCall.responses[n].kind = "response"}}

\* C5: score_tool gives a candidate whose language is not 'python' (in any
\* letter case; a missing, null or empty language included) the score 0,
\* whatever its stars, documentation, relevance and update time, and no
\* such candidate is in the list find_best_tools_with_exclusion returns.
C5_NonPythonScoresZero ==
  /\ (scoreCall.called /\ LanguageOf(scoreCall.repo) # PYTHON)
       => scoreCall.result.score = 0
  /\ discCall.called =>
       \A i \in 1..Len(discCall.result.top_tools) :
         \A repo \in AnsweredRepos :
           repo.html_url = discCall.result.top_tools[i].url => LanguageOf(repo) = PYTHON

\* A popular, documented, fresh JavaScript repository was collected and
\* scored, and the call returned candidates.
C5_Witness ==
  /\ discCall.called
  /\ discCall.result.top_tools # <<>>
  /\ \E i \in 1..Len(discCall.result.all_repos) :
       discCall.result.all_repos[i] = JS_REPO
  /\ JS_REPO.stargazers_count > max_stars /\ JS_REPO.docs # NoDocs
  /\ freshness_score(JS_REPO) = 20

\* Every search variant of the discovery call was answered with status 200
AllAnsweredNormally ==
  \A k \in 1..Len(search_strategies) :
    /\ discCall.responses[k].kind = "response"
    /\ discCall.responses[k].status_code = 200

\* C14: a call of find_best_tools_with_exclusion whose every request is
\* answered normally (status 200) issues at least three different search
\* variants before it scores, whatever number of repositories they return.
C14_ThreeVariantsIssued ==
  (discCall.called /\ AllAnsweredNormally) =>
    Cardinality(Range(discCall.result.issued)) >= 3

\* The ids of the repositories collected that a candidate of the list
\* returned was made from (tool_info keeps the repository's html_url)
RepositoryIds(tool_info) ==
  {repo.id : repo \in {r \in Range(discCall.result.all_repos) : r.html_url = tool_info.url}}

\* C19: the list find_best_tools_with_exclusion returns is sorted by score in
\* non-increasing order, has at most max_tools entries, holds only candidates
\* of a score above zero, and holds no two candidates of the same repository
\* id.
C19_TopToolsSortedBoundedPositiveDistinct ==
  discCall.called =>
    \E top_tools \in {discCall.result.top_tools} :
      /\ \A k \in 1..(Len(top_tools) - 1) : top_tools[k].score >= top_tools[k + 1].score
      /\ Len(top_tools) <= discCall.max_tools
      /\ \A k \in 1..Len(top_tools) :
           /\ top_tools[k].score > 0
           /\ RepositoryIds(top_tools[k]) # {}
      /\ \A j, k \in 1..Len(top_tools) :
           j # k => RepositoryIds(top_tools[j]) \cap RepositoryIds(top_tools[k]) = {}

\* A call that two variants answer with the same repositories among others,
\* that scores more candidates above zero than max_tools, and that returns
\* candidates of different scores
C19_Witness ==
  /\ discCall.called /\ discCall.max_tools = 3
  /\ \A k \in 1..2 : /\ discCall.responses[k].kind = "response"
                      /\ discCall.responses[k].status_code = 200
  /\ Range(discCall.responses[1].items) \cap Range(discCall.responses[2].items) # {}
  /\ Len(discCall.result.all_repos) > 3
  /\ Len(discCall.result.top_tools) = 3
  /\ discCall.result.top_tools[1].score > discCall.result.top_tools[3].score

\* A 403 answer with no quota left (lines 557-560)
RateLimited(response) ==
  response.kind = "response" /\ response.status_code = 403 /\ response.remaining = "0"

\* A request error, or an answer of another status than 200 that is not the
\* rate limit (lines 562-564, 590-592)
Failed(response) ==
  \/ response.kind = "exception"
  \/ response.status_code # 200 /\ ~RateLimited(response)

\* The answers with every failed variant, and every variant from a rate
\* limit on, answering 200 with no repository
RECURSIVE FoundNothingInstead(_, _)
FoundNothingInstead(responses, limited) ==
  IF responses = <<>> THEN <<>>
  ELSE LET response == Head(responses)
           stop == limited \/ RateLimited(response)
       IN  <<IF stop \/ Failed(response) THEN Response(200, "absent", <<>>) ELSE response>>
             \o FoundNothingInstead(Tail(responses), stop)

\* C20: a variant that fails (a status other than 200, a request error) is
\* skipped and the next variant is issued; a rate-limited variant is the last
\* one issued; in both cases the call returns what it returns when those
\* variants find nothing instead, so the repositories of the other variants
\* are collected, scored and returned; and it returns the empty list when
\* nothing was collected.
C20_FailuresKeepTheCollected ==
  discCall.called =>
    \E issued \in {Len(discCall.result.issued)} :
    \E clean \in {find_best_tools_with_exclusion(FoundNothingInstead(discCall.responses, FALSE),
                     <<>>, <<GET_THE_RAIN_API>>, RAIN_API,
                     discCall.excluded_tools, discCall.max_tools)} :
      /\ \A k \in 1..issued :
           /\ (Failed(discCall.responses[k]) /\ k < Len(search_strategies)) => issued >= k + 1
           /\ RateLimited(discCall.responses[k]) => issued = k
      /\ discCall.result.all_repos = clean.all_repos
      /\ discCall.result.top_tools = clean.top_tools
      /\ discCall.result.all_repos = <<>> => discCall.result.top_tools = <<>>

\* A call whose first variant finds repositories, whose second fails with a
\* request error and whose third is rate-limited, and which returns
\* candidates of the first
C20_Witness ==
  /\ discCall.called
  /\ discCall.responses[1].kind = "response" /\ discCall.responses[1].status_code = 200
  /\ discCall.responses[2].kind = "exception"
  /\ RateLimited(discCall.responses[3])
  /\ discCall.result.issued = <<1, 2, 3>>
  /\ discCall.result.top_tools # <<>>

\* The repositories collected once the first k variants have answered: those
\* of the variants that answered 200, without the excluded and the seen
RECURSIVE CollectedUpTo(_)
CollectedUpTo(k) ==
  IF k = 0 THEN NoneCollected
  ELSE IF discCall.responses[k].kind = "response" /\ discCall.responses[k].status_code = 200
       THEN AddRepos(discCall.responses[k].items, discCall.excluded_tools, CollectedUpTo(k - 1))
       ELSE CollectedUpTo(k - 1)

\* No variant is issued once 3 * max_tools repositories are collected
StopsOnceEnoughCollected ==
  \A k \in 1..Len(discCall.result.issued) :
    Len(CollectedUpTo(k - 1).all_repos) < 3 * discCall.max_tools

\* C21 (as amended): no search variant is issued after the number of
\* repositories collected has reached 3 * max_tools; the number is compared
\* after all repositories of a variant are added, so it may exceed
\* 3 * max_tools, by less than the number of repositories the last variant
\* issued has found.
C21_NoVariantAfterEnoughCollected ==
  discCall.called =>
    /\ StopsOnceEnoughCollected
    /\ discCall.result.all_repos = CollectedUpTo(Len(discCall.result.issued)).all_repos
    /\ Len(discCall.result.all_repos) >= 3 * discCall.max_tools =>
          /\ discCall.responses[Len(discCall.result.issued)].kind = "response"
          /\ Len(discCall.result.all_repos)
               < 3 * discCall.max_tools
                   + Len(discCall.responses[Len(discCall.result.issued)].items)

\* C21 (as stated): no search variant is issued after the number of
\* repositories collected has reached 3 * max_tools, and that number never
\* exceeds 3 * max_tools.
C21_CollectedAtMostThreeTimesMaxTools ==
  discCall.called =>
    /\ StopsOnceEnoughCollected
    /\ Len(discCall.result.all_repos) <= 3 * discCall.max_tools

\* A call that stops after its second variant of four, all answering 200,
\* with 3 * max_tools repositories collected
C21_Witness ==
  /\ discCall.called /\ AllAnsweredNormally
  /\ discCall.max_tools = 3
  /\ discCall.result.issued = <<1, 2>>
  /\ Len(discCall.result.all_repos) >= 3 * discCall.max_tools

\* The repositories the scoring loop of a call comes to (all_repos[:20]), and
\* those of them it scores
Evaluated == Range(Prefix(discCall.result.all_repos, 20))

ScoredRepos == {repo \in Evaluated : repo.stargazers_count >= 5}

\* C29: every candidate find_best_tools_with_exclusion scores has at least 5
\* stars; a candidate of at least 5 stars gets a score above zero exactly if
\* its language is Python, in whatever case; so the candidates returned are
\* Python repositories of at least 5 stars, and all of them up to max_tools.
C29_PresentedArePythonWithFiveStars ==
  /\ (scoreCall.called /\ scoreCall.repo.stargazers_count >= 5) =>
       (scoreCall.result.score > 0 <=> LanguageOf(scoreCall.repo) = PYTHON)
  /\ discCall.called =>
       /\ \A repo \in ScoredRepos :
            score_tool(repo, fetch_repository_readme(repo), <<>>, <<GET_THE_RAIN_API>>,
                       RAIN_API).score > 0
              <=> LanguageOf(repo) = PYTHON
       /\ \A k \in 1..Len(discCall.result.top_tools) :
            /\ discCall.result.top_tools[k].language = PYTHON
            /\ discCall.result.top_tools[k].stars >= 5
            /\ \E repo \in ScoredRepos :
                 /\ repo.html_url = discCall.result.top_tools[k].url
                 /\ LanguageOf(repo) = PYTHON
       /\ Len(discCall.result.top_tools)
            = Min(discCall.max_tools,
                  Cardinality({repo \in ScoredRepos : LanguageOf(repo) = PYTHON}))

\* A call that collects a JavaScript repository of 9000 stars and a Python
\* repository of 3 stars and returns fewer candidates than max_tools
C29_Witness ==
  /\ discCall.called
  /\ JS_REPO \in Evaluated /\ FEW_STARS \in Evaluated
  /\ discCall.result.top_tools # <<>>
  /\ Len(discCall.result.top_tools) < discCall.max_tools

\* The last session returned the message of a failed first execution
ExecutionFailed == hist.last.ended /\ hist.last.result = NewToolFailed

\* What search_tool_by_keywords can give for the request of the step that
\* acquired the tool, on the repository as it is now
MatchesOfTheRequest ==
  search_tool_by_keywords(toolsDir, files, RAIN_API, extract_keywords(task.user_input))

\* C30: the new tool is saved before its first execution and the save is
\* not undone when the execution fails: after a session that returned
\* "Failed to execute new tool" one save was made, tools/<id>.json holds the
\* record of the candidate with the generated code, the tool is listed, and
\* search_tool_by_keywords returns it for the request of the step.
C30_SavedToolOutlivesFailedExecution ==
  ExecutionFailed =>
    /\ hist.last.saves = 1
    /\ hist.last.install.approved /\ hist.last.install.installed
    /\ hist.last.install.loaded.found
    /\ hist.last.install.id \in DOMAIN files
    /\ load_tool_by_id(files, hist.last.install.id) = hist.last.install.loaded
    /\ hist.last.install.loaded.data.id = hist.last.install.id
    /\ hist.last.install.loaded.data.python_code = hist.last.install.code
    /\ hist.last.install.loaded.data.original_name = hist.last.install.tool_info.name
    /\ hist.last.install.loaded.data.install_dependencies = hist.last.install_cmds
    /\ \E tool \in hist.last.listed_after : tool.filename = hist.last.install.id
    /\ \E tool \in list_available_tools_v2(toolsDir, files) :
         tool.filename = hist.last.install.id
    /\ \E outcome \in MatchesOfTheRequest :
         outcome.kind = "tool" /\ outcome.file = hist.last.install.id

\* The execution of a tool with install commands failed in a task that began
\* with no tools/ directory, and the task has returned
C30_Witness ==
  /\ ExecutionFailed /\ pc = "done"
  /\ hist.last.install_cmds # <<>>
  /\ hist.last.listed_before = {}
  /\ Cardinality(DOMAIN files) = 1

\* The five components of the score of the candidate scored, in units
ScoredComponents ==
  LET repo == scoreCall.repo
      docs == fetch_repository_readme(repo)
  IN  <<star_score(repo),
        ScoreUnit * doc_score(docs),
        ScoreUnit * quality_bonus(repo, docs),
        ScoreUnit * relevance_score(repo, scoreCall.steps, scoreCall.search_keyword),
        ScoreUnit * freshness_score(repo)>>

\* C11: for a candidate with a non-negative star count score_tool returns a
\* total between 0 and 100; for a Python candidate the total is the sum of
\* five components (popularity, documentation, quality, relevance,
\* freshness) that each lie between 0 and 20; the popularity component does
\* not decrease when the star count grows and is 20 from 5000 stars on.
C11_ScoreWithinBounds ==
  (scoreCall.called /\ scoreCall.repo.stargazers_count >= 0) =>
    /\ scoreCall.result.score \in 0..(100 * ScoreUnit)
    /\ LanguageOf(scoreCall.repo) = PYTHON =>
         \E components \in {ScoredComponents} :
           /\ \A i \in 1..5 : components[i] \in 0..(20 * ScoreUnit)
           /\ scoreCall.result.score =
                components[1] + components[2] + components[3]
                + components[4] + components[5]
           /\ scoreCall.repo.stargazers_count >= max_stars =>
                components[1] = 20 * ScoreUnit
           /\ \A more \in SampleStars :
                more >= scoreCall.repo.stargazers_count =>
                  star_score([scoreCall.repo EXCEPT !.stargazers_count = more])
                    >= components[1]

\* A Python candidate with more than 5000 stars was scored: its popularity
\* component is capped at 20 and the other components are not all zero.
C11_Witness ==
  /\ scoreCall.called
  /\ LanguageOf(scoreCall.repo) = PYTHON
  /\ scoreCall.repo.stargazers_count > max_stars
  /\ ScoredComponents[1] = 20 * ScoreUnit
  /\ scoreCall.result.score > 20 * ScoreUnit

---------------------------------------------------------------------------
(* Properties of a task (Spec)                                             *)

\* Whether the session that returned last was answered 'y' or 'Y' at the
\* approval prompt
UserApproved == hist.last.answer # NoValue /\ Lower(hist.last.answer) = <<"y">>

\* C1, as stated: one acquisition session calls
\* find_best_tools_with_exclusion at most 3 times before it returns,
\* whatever the user answers.
C1_AtMostThreeSearches ==
  /\ session.active => session.searches <= 3
  /\ hist.last.ended => hist.last.searches <= 3

\* C1, amended: 'search again' is taken at most 3 times; the session
\* searches once at its start, once after each of the first two 'search
\* again' and once after each declined approval, so at most 3 times when
\* no approval is declined and at most 3 + d times with d declined ones.
C1_SearchesBoundedByRoundsAndDeclines ==
  /\ session.active =>
       /\ session.current_attempt < 3
       /\ session.searches = 1 + session.current_attempt + session.declines
  /\ hist.last.ended =>
       /\ hist.last.again <= 3
       /\ hist.last.searches <= 3 + hist.last.declines
       /\ hist.last.searches <= 1 + hist.last.again + hist.last.declines

\* A session that used up its three rounds by 'search again', with no
\* approval declined, has returned after three searches.
C1_Witness ==
  /\ hist.last.ended /\ hist.last.result = AttemptsExhausted
  /\ hist.last.again = 3 /\ hist.last.declines = 0 /\ hist.last.searches = 3

\* C2, as stated: the candidates of a search are never in the excluded
\* set the search was given, and the candidates presented after a 'search
\* again' are disjoint from every candidate set presented before it.
C2_PresentedCandidatesAreNew ==
  (session.active /\ pc \in {"choose", "approve"}) =>
    /\ Names(session.tool_options) \cap session.excluded = {}
    /\ Names(session.tool_options) \cap session.shown_before_again = {}

\* C8: a session that returns without the user having approved an
\* installation returns one of the failure messages, has not called the
\* installer nor save_tool_as_json, and leaves list_available_tools_v2()
\* as it was when the session started.
C8_UnapprovedSessionLeavesRepository ==
  (hist.last.ended /\ ~UserApproved) =>
    /\ hist.last.result \in {Cancelled, AttemptsExhausted, NoSuitableTools, SessionError}
    /\ ~hist.last.install.approved
    /\ hist.last.saves = 0
    /\ hist.last.listed_after = hist.last.listed_before

\* Three rounds used up by 'search again' on a repository that held a tool
C8_Witness ==
  /\ hist.last.ended /\ ~UserApproved
  /\ hist.last.result = AttemptsExhausted
  /\ hist.last.listed_before # {}

C10_ApprovalPersists ==
  (hist.last.ended /\ UserApproved) =>
    Cardinality(hist.last.listed_after) = Cardinality(hist.last.listed_before) + 1

\* C10, amended: after an approval the session either returns the failure
\* of a stage (an install command failed, no code was generated, the
\* description could not be generated), with the repository unchanged, or
\* it has saved the tool exactly once: the record of the returned id holds
\* the candidate's name, the install commands and the code, and the list
\* has one more tool, unless a record with the same id was stored before.
C10_ApprovalPersistsUnlessAStageFails ==
  (hist.last.ended /\ UserApproved) =>
    /\ hist.last.install.approved
    /\ \/ /\ hist.last.result = InstallFailed
          /\ ~hist.last.install.installed /\ hist.last.install_cmds # <<>>
          /\ hist.last.saves = 0 /\ hist.last.listed_after = hist.last.listed_before
       \/ /\ hist.last.result = NoValidCode
          /\ hist.last.install.code = <<>>
          /\ hist.last.saves = 0 /\ hist.last.listed_after = hist.last.listed_before
       \/ /\ hist.last.result = InstallerError
          /\ hist.last.install.described = "failed"
          /\ hist.last.saves = 0 /\ hist.last.listed_after = hist.last.listed_before
       \/ /\ hist.last.result \in {NewToolExecuted, NewToolFailed}
          /\ hist.last.install.code # <<>>
          /\ hist.last.saves = 1
          /\ hist.last.install.loaded.found
          /\ hist.last.install.loaded.data.id = hist.last.install.id
          /\ hist.last.install.loaded.data.original_name = hist.last.install.tool_info.name
          /\ hist.last.install.loaded.data.install_dependencies = hist.last.install_cmds
          /\ hist.last.install.loaded.data.python_code = hist.last.install.code
          /\ Cardinality(hist.last.listed_after) =
               Cardinality(hist.last.listed_before)
               + (IF \E e \in hist.last.listed_before : e.filename = hist.last.install.id
                  THEN 0 ELSE 1)

\* An approved candidate was saved next to a tool stored before
C10_Witness ==
  /\ hist.last.ended /\ UserApproved
  /\ hist.last.result = NewToolExecuted
  /\ hist.last.listed_before # {}
  /\ Cardinality(hist.last.listed_after) = Cardinality(hist.last.listed_before) + 1

\* What handle_task may return, and what a step may record as its result
TaskMessages == {TaskError, DirectResponse, FinalAnswer}

StepMessages ==
  {StepCompleted, NoSuitableTools, Cancelled, AttemptsExhausted, SessionError,
   InstallFailed, NoValidCode, InstallerError, NewToolFailed, NewToolExecuted,
   ToolFailed, ToolExecuted, ToolError}

WellFormedSteps ==
  \A k \in 1..Len(task.steps) : "requires_tool" \in DOMAIN task.steps[k]

\* C13: in a tool-requiring task of N steps the steps are begun in the order
\* 1..N, each once, whatever the earlier steps ended with; after step i
\* there are i results and i captured outputs; the final answer is asked
\* for exactly once, after step N, with the N results.
C13_EveryStepProcessedOnce ==
  (task.active /\ WellFormedSteps) =>
    /\ \A k \in 1..Len(hist.steps) : hist.steps[k].step = k
    /\ Len(results) = Len(step_outputs)
    /\ pc = "step" => Len(results) = step_index - 1 /\ Len(hist.steps) = step_index - 1
    /\ Len(hist.synthesis) <= 1
    /\ hist.synthesis # <<>> =>
         hist.synthesis[1] = results /\ Len(results) = Len(task.steps)
    /\ pc = "done" =>
         /\ Len(hist.steps) = Len(task.steps)
         /\ Len(results) = Len(task.steps)
         /\ Len(hist.synthesis) = 1

\* The session after a step that ends it or leaves it waiting for an answer
SessionAfter == IF session'.active THEN session' ELSE hist'.last

\* The step in which the approval of the selected candidate is declined
DeclineStep ==
  /\ pc = "approve" /\ session.active
  /\ SessionAfter.declines = session.declines + 1

\* C16: when the approval of the selected candidate is declined, the name
\* of that candidate and no other is added to the exclusion set, the count
\* of search rounds stays as it is, and one new search is made with the
\* grown exclusion set.
C16_DeclineExcludesTheCandidateOnly ==
  [][DeclineStep =>
       LET name == session.tool_options[session.tool_index].name
       IN  /\ SessionAfter.excluded = session.tried_tools \cup {name}
           /\ session'.active =>
                /\ session'.tried_tools = session.tried_tools \cup {name}
                /\ session'.current_attempt = session.current_attempt
                /\ pc' = "choose"
           /\ ~session'.active => hist'.last.again = session.current_attempt
           /\ SessionAfter.searches = session.searches + 1
           /\ hist'.steps[step_index].searches = hist.steps[step_index].searches + 1]_vars

\* After one declined approval in the first round the second search has
\* been made with one name excluded, and again shows a candidate that was
\* shown beside the declined one.
C16_Witness ==
  /\ session.active /\ pc = "choose"
  /\ session.declines = 1 /\ session.current_attempt = 0 /\ session.searches = 2
  /\ Cardinality(session.excluded) = 1
  /\ session.tried_tools = session.excluded
  /\ Cardinality(session.shown) > Cardinality(Names(session.tool_options))
  /\ Cardinality(Names(session.tool_options)) >= 2

\* The step in which the user answers 's' (search again)
SearchAgainStep ==
  /\ pc = "choose" /\ session.active
  /\ (IF session'.active THEN session'.current_attempt ELSE hist'.last.again)
       = session.current_attempt + 1

\* C17: an answer 's' adds the names of all candidates shown in that round
\* to the exclusion set and adds one to the round counter, and the search
\* that follows is made with that set; the exclusion set of a session
\* starts empty and only grows, and the round counter never exceeds 3.
C17_SearchAgainExcludesTheRound ==
  [][/\ SearchAgainStep =>
          /\ SessionAfter.tried_tools = session.tried_tools \cup session.shown_in_round
          /\ SessionAfter.searches > session.searches =>
               /\ SessionAfter.searches = session.searches + 1
               /\ SessionAfter.excluded = SessionAfter.tried_tools
     /\ (~session.active /\ session'.active) => session'.excluded = {}
     /\ (session.active /\ session'.active) =>
          /\ session.tried_tools \subseteq session'.tried_tools
          /\ session.excluded \subseteq session'.excluded
     /\ session'.active => session'.current_attempt <= 3
     /\ hist'.last.ended => hist'.last.again <= 3]_vars

\* The answers the prompt of line 301 acts on: 'c', 's', and the numbers of
\* the candidates it lists
ListedNumbers == {<<"1">>, <<"2">>, <<"3">>, <<"4">>, <<"5">>, <<"6">>, <<"7">>, <<"8">>, <<"9">>}

ValidSelections ==
  {<<"c">>, <<"C">>, <<"s">>, <<"S">>}
    \cup {n \in ListedNumbers : Digit(n[1]) <= Len(session.tool_options)}

\* The user answers the list with one of the answers it asks for
ValidAnswer ==
  /\ pc = "choose"
  /\ \E choice \in Choices \cap ValidSelections : Choose(choice)

\* What _create_and_execute_new_tool_v2 may return: cancelled, no candidate
\* found, maximum attempts reached, the message of its except clause (line
\* 350), and the results of _install_and_execute_tool_v2
SessionResults ==
  {Cancelled, NoSuitableTools, AttemptsExhausted, SessionError,
   InstallFailed, NoValidCode, InstallerError, NewToolFailed, NewToolExecuted}

\* C18 (as amended): a session in which every list the user is shown
\* eventually gets a valid answer ('c', 's' or a listed number, followed by
\* any approval) returns after finitely many prompts with one of its
\* results, the searches drawing their candidates from a finite pool of
\* names.
C18_SessionReturnsOnValidAnswers ==
  WF_vars(ValidAnswer) =>
    (session.active ~> (hist.last.ended /\ hist.last.result \in SessionResults))

\* C18 (as stated): every session returns after finitely many prompts,
\* whatever the user answers, invalid selections included.
C18_SessionReturnsOnAnyAnswers == session.active ~> ~session.active

\* A session that returned with "maximum attempts reached" after declined
\* approvals and answers 's'
C18_Witness ==
  /\ hist.last.ended /\ hist.last.result = AttemptsExhausted
  /\ hist.last.declines >= 1 /\ hist.last.searches >= 4

\* C22: whenever handle_task has returned for a task that needs a tool, on
\* the normal path and on every error path (a final answer that fails
\* included), tool_output.json does not exist.
C22_ArtifactGoneWhenTaskReturns ==
  (pc = "done" /\ task.active /\ hist.task.returned) => ~tool_output.present

\* C23: the capture of standard output is installed when a step starts and
\* the original stream is back before the next step starts, at every prompt
\* of the step, and whenever handle_task has returned, also when an
\* exception was raised while the capture was installed.
C23_StdoutRestored ==
  /\ pc \in {"idle", "step", "deps", "choose", "approve"} => stdout = "console"
  /\ pc = "done" => stdout = "console"

\* The calls of install_dependencies made in the step taken
NewlyRun == SubSeq(hist'.ran, Len(hist.ran) + 1, Len(hist'.ran))

\* The step in which the user approves a candidate and one of its install
\* commands fails
FailedInstallStep ==
  /\ pc = "approve" /\ hist'.last.ended /\ hist'.last.install.approved
  /\ \E k \in 1..Len(NewlyRun) : ~NewlyRun[k].success

\* C24: when an install command of an approved candidate fails, the commands
\* run are those up to the failed one, each once and in order; no code is
\* generated and no description asked for, no tool is saved, the artifact of
\* an execution is not written, and the result of the step is the
\* installation-failure message.
C24_FailedInstallAbortsTheAttempt ==
  [][FailedInstallStep =>
       /\ \A k \in 1..Len(NewlyRun) :
            /\ NewlyRun[k].command = session.install_cmds[k]
            /\ NewlyRun[k].success = (k < Len(NewlyRun))
       /\ Len(NewlyRun) <= Len(session.install_cmds)
       /\ hist'.last.install.code = <<>>
       /\ hist'.last.install.described = "not asked"
       /\ files' = files /\ toolsDir' = toolsDir /\ saveLog' = saveLog
       /\ hist'.last.saves = 0
       /\ tool_output' = tool_output
       /\ hist'.last.result = InstallFailed
       /\ results' = Append(results, InstallFailed)]_vars

\* A session that returned the installation-failure message after the first
\* of the two install commands of the approved candidate failed
C24_Witness ==
  /\ hist.last.ended /\ hist.last.install.approved
  /\ Len(hist.last.install_cmds) = 2
  /\ Len(hist.ran) = 1 /\ ~hist.ran[1].success
  /\ hist.last.result = InstallFailed

\* The pairs of a query keyword and a keyword of the tool returned, both of
\* at least 4 characters, one of which contains the other
ContainingPairs ==
  {<<s, t>> \in ExpandedKeywords(matchCall.required_tool, matchCall.task_keywords)
               \X ToolKeywords(matchCall.outcome.data) :
     /\ Len(s) >= 4 /\ Len(t) >= 4
     /\ (IsSubstr(s, t) \/ IsSubstr(t, s))}

\* C25: the partial-match component of the tool search_tool_by_keywords
\* returns is 0.5 times the number of pairs of a query keyword and a tool
\* keyword, both of at least 4 characters, one of which contains the other,
\* divided by the number of expanded query keywords; a query keyword
\* contained in several tool keywords counts 0.5 for each of them.
C25_PartialScoreCountsEveryPair ==
  (matchCall.called /\ matchCall.outcome.kind = "tool") =>
    \E n \in {Cardinality(ExpandedKeywords(matchCall.required_tool, matchCall.task_keywords))} :
      matchCall.outcome.score_breakdown.partial_score.num * 2 * n
        = Cardinality(ContainingPairs) * matchCall.outcome.score_breakdown.partial_score.den

\* The combined score of the record in file f for the call made: 0.4 keyword
\* + 0.2 description + 0.1 name + 0.2 partial + domain boost + anchor bonus
CombinedScore(f) ==
  total_score(files[f].data,
              ExpandedKeywords(matchCall.required_tool, matchCall.task_keywords),
              matchCall.required_tool)

\* C26: the tool search_tool_by_keywords returns is a readable record of
\* tools/ and no readable record has a higher combined score; records that
\* cannot be read are skipped: whenever a readable record reaches the
\* threshold, the call does not return None.
C26_ReturnsTheMaximum ==
  matchCall.called =>
    /\ matchCall.outcome.kind = "tool" =>
         /\ matchCall.outcome.file \in ReadableFiles
         /\ matchCall.outcome.data = files[matchCall.outcome.file].data
         /\ matchCall.outcome.match_score = CombinedScore(matchCall.outcome.file)
         /\ \A g \in ReadableFiles :
              CombinedScore(g).num * CombinedScore(matchCall.outcome.file).den
                <= CombinedScore(matchCall.outcome.file).num * CombinedScore(g).den
    /\ (toolsDir /\ \E f \in ReadableFiles : PassesThreshold(CombinedScore(f))) =>
         matchCall.outcome.kind # "none"

\* A call that returns a tool from two readable records of different scores
\* above zero
C26_Witness ==
  /\ matchCall.called /\ matchCall.outcome.kind = "tool"
  /\ Cardinality(ReadableFiles) = 2
  /\ \E g \in ReadableFiles :
       /\ CombinedScore(g).num > 0
       /\ CombinedScore(g).num < CombinedScore(matchCall.outcome.file).num

\* A call that returns a tool from a repository that holds a file json.load
\* cannot read
C26_CorruptSkipped ==
  /\ matchCall.called /\ matchCall.outcome.kind = "tool"
  /\ DOMAIN files # ReadableFiles

\* The steps of the task for which the code of a tool was run
StepsWithAToolRun ==
  {k \in 1..Len(results) :
     results[k] \in {ToolExecuted, ToolFailed, NewToolExecuted, NewToolFailed}}

\* C27: a tool_output.json that _generate_final_answer reads was written in
\* the task it answers, by the tool run for a step of that task, and by no
\* tool run before the last one: never a file left by an earlier task.
C27_SynthesisReadsTheArtifactOfTheTask ==
  \A n \in 1..Len(hist.consumed) :
    hist.consumed[n].present =>
      /\ hist.consumed[n].step \in StepsWithAToolRun
      /\ \A k \in StepsWithAToolRun : k <= hist.consumed[n].step

\* A command that starts with one of pip, pip3, npm, yarn, python, pytest,
\* uvicorn, flask and holds none of | > & ;, and that the whitelist of
\* clean_and_validate_commands lets through as it is
Whitelisted(cmd) ==
  /\ \E program \in AllowedPrograms : MatchesAt(cmd, 1, program)
  /\ \A k \in 1..Len(cmd) : cmd[k] \notin {"|", ">", "&", ";"}
  /\ ValidCommand(cmd)
  /\ clean_and_validate_commands(<<cmd>>) = <<cmd>>

\* C28: every command passed to install_dependencies, for a new tool and for
\* a stored tool of a repository written by save_tool_as_json, has passed the
\* whitelist of clean_and_validate_commands, and was run after the user had
\* answered 'y' to the prompt before it.
C28_OnlyWhitelistedCommandsAfterApproval ==
  \A k \in 1..Len(hist.ran) :
    /\ Whitelisted(hist.ran[k].command)
    /\ hist.ran[k].approval \in {<<"y">>, <<"Y">>}

\* An approved candidate for which the model gave four commands, one with a
\* prompt sign and a comment, one of git, one with a pipe: the two that
\* passed the whitelist have run
C28_Witness ==
  /\ hist.last.ended /\ hist.last.install.approved
  /\ Len(hist.ran) = 2 /\ hist.ran[2].success
  /\ hist.ran[1].command = <<"p", "i", "p", " ", "i", "n", "s", "t", "a", "l", "l", " ", "w", "x">>

=============================================================================
